---- MODULE Spec2Model ----
(***************************************************************************)
(* Prelexa back end: the document record store, the background ingestion   *)
(* job in its two implementations (DocumentService._process_document_      *)
(* background, the one upload_document enqueues, and tasks.process_        *)
(* document_in_background), the org-scoped request handlers and the        *)
(* question generator.                                                     *)
(***************************************************************************)
EXTENDS Integers, Sequences, FiniteSets, TLC

\* ------------------------------------------------------------------ bounds
MaxDocs == 1

\* len(text_content.strip()) < 20, document_tasks.py:65
MinTextLen == 20

\* Variable rows a client may add to one document through the variables API.
MaxRows == 1

\* Variables a template declares.
MaxTemplateVars == 2

\* Documents uploaded into the upload directory.
MaxUploads == 2

\* Tokens of a model reply handed to a JSON decoder, and of a string inside a
\* JSON value.
MaxRawLen == 3
MaxStrLen == 4

\* Search results handed to bootstrap_template ("numResults": 3 in the request).
MaxExamples == 3

\* Tokens of a template markdown.
MaxMdLen == 4

\* Rows of the DocumentVariable table, and elements of one bulk insert.
MaxTableRows == 3

\* Messages of one oracle call.
MaxMessages == 3

\* Pages of a PDF.
MaxPages == 2
MaxBulk == 2

\* len(text.strip()) < 100 in bootstrap_template
MinExemplarLen == 100

\* analysis_result.get("confidence", 0) < 0.3, confidences counted in hundredths
MaxSockets == 3
MaxCallers == 2
MaxTypeRows == 3
MinConfidence == 30

Orgs == {"orgA", "orgB"}
DocIds == 1..MaxDocs
\* Template ids are opaque strings; one template can be stored.
TemplateIds == {"tpl-1"}

\* The ids a request may name: those of the store and one that never exists.
RequestDocIds == 1..(MaxDocs + 1)
RequestTemplateIds == TemplateIds \cup {"tpl-unknown"}

\* ------------------------------------------------------------------ values
NullStr == "NULL"

Xs(n) == [i \in 1..n |-> "x"]

\* Extracted texts: empty, whitespace only, 19 and 20 characters once stripped.
Texts == { <<>>, <<" ", " ", " ">>, <<" ">> \o Xs(MinTextLen - 1), Xs(MinTextLen) \o <<" ">> }

RECURSIVE LStrip(_)
LStrip(s) == IF s # <<>> /\ Head(s) = " " THEN LStrip(Tail(s)) ELSE s

RECURSIVE RStrip(_)
RStrip(s) == IF s # <<>> /\ s[Len(s)] = " " THEN RStrip(SubSeq(s, 1, Len(s) - 1)) ELSE s

\* str.strip()
Strip(s) == RStrip(LStrip(s))

NullText == [isNull |-> TRUE, text |-> <<>>]
SomeText(t) == [isNull |-> FALSE, text |-> t]

NullInsights == [kind |-> "null"]

\* A Document row that does not exist (find_unique returns None).
\* ConnectionManager() (websocket_manager.py:5-6): an empty active_connections, no
\* socket accepted yet, no broadcast under way.
NoBroadcast == [pc |-> "idle", org |-> "none", i |-> 0, detached |-> FALSE,
                sent |-> <<>>, stayed |-> {}]

NoConnections == [active_connections |-> [o \in {} |-> <<>>],
                  sock |-> [s \in 1..MaxSockets |-> [state |-> "new", org |-> "none"]],
                  bc |-> NoBroadcast]

\* A caller of the DocumentType registry that is not in a call.
NoTypeCall == [pc |-> "none", kind |-> "none", name |-> "", tag |-> "none", id |-> 0]

\* The DocumentType table, a row per create in the order of the creates (a row's id is
\* its position), and the callers.
NoRegistry == [rows |-> <<>>, calls |-> [c \in 1..MaxCallers |-> NoTypeCall]]

\* A delete_document call: where it stands, whether the job was running when it
\* began, and whether its last step took variable rows with the document.
NoDeletion == [pc |-> "none", during |-> FALSE, cascaded |-> FALSE]

NoDoc == [status |-> "absent", orgId |-> "none", fullText |-> NullText,
          documentType |-> NullStr, insights |-> NullInsights]

\* db.document.create(data={"status": "uploaded", "filePath": ..., "orgId": org_id})
NewDoc(org) == [status |-> "uploaded", orgId |-> org, fullText |-> NullText,
                documentType |-> NullStr, insights |-> NullInsights]

\* JSON values as the pipeline sees them: a dict (its keys in order), or a string.
Dict(keys) == [kind |-> "dict", keys |-> keys, text |-> ""]
Str(t) == [kind |-> "str", keys |-> <<>>, text |-> t]

\* What json.loads(raw_response) of the entity extractor can hand back.
EntityOutputs == { Dict(<<>>), Dict(<<"parties", "dates">>), Str("n/a") }

SummaryOutputs == {"summary of the document"}
FailedSummary == "Failed to generate summary"

ClassifierOutputs == {" Legal\n"}

\* doc_type_raw.strip().lower() on the classifier's outputs
StripLower(raw) == IF raw = " Legal\n" THEN "legal" ELSE raw

\* safe_parse_json: a dict is returned as it is; a string is stripped and parsed,
\* "{}" giving the empty dict and anything json.loads rejects the sentinel.
SafeParseJson(raw) ==
    IF raw.kind = "dict" THEN raw
    ELSE IF raw.text = "{}" THEN Dict(<<>>)
    ELSE Dict(<<"error", "raw_output">>)

\* bool(entities) of a parsed value
Truthy(v) == IF v.kind = "dict" THEN v.keys # <<>> ELSE v.text # ""

\* The analyzer's parsed reply (analyze_document_text): its fields, each with or
\* without a "name" key.
AnalysisFields == { <<>>, <<[name |-> "total"]>>, <<[name |-> "total"], [name |-> NullStr]>> }

IdleJob == [pc |-> "none", text |-> <<>>, doc_type |-> NullStr,
            summary |-> "", entities |-> Dict(<<>>), fields |-> <<>>,
            clsRaised |-> FALSE, sumRaised |-> FALSE, entRaised |-> FALSE,
            entOut |-> Dict(<<>>), varsRaised |-> FALSE]

JobKinds == {"svc", "task"}

\* Owner org of a Template row that does not exist.
NoTemplate == "none"

\* No request answered yet.
NoRequest == [case |-> "none", refused |-> FALSE, leak |-> FALSE]

\* The template's variables in their fetched order: variable i has key i, label i
\* and example i, and is required or not.
TemplateVariables(required) ==
    [i \in 1..Len(required) |-> [key |-> i, label |-> i, example |-> i,
                                 required |-> required[i]]]

\* No generate_questions call in progress.
IdleQuestions == [pc |-> "idle", variables |-> <<>>, filled_variables |-> {},
                  missing_vars |-> <<>>, generated_questions |-> <<>>,
                  completed |-> <<>>, questions_to_ask |-> <<>>]

\* Files a client may name in an upload.
Filenames == {"a.pdf", "b.pdf"}
UploadIds == 1..MaxUploads

\* A Document row of the upload directory's view: never created, or deleted. read
\* is the upload whose bytes the document's background job has read, 0 before.
UnusedRow == [state |-> "unused", orgId |-> "none", filePath |-> "none", read |-> 0]
DeletedRow == [state |-> "deleted", orgId |-> "none", filePath |-> "none", read |-> 0]

\* No file under a name of the upload directory.
NoFile == 0

\* A decoder that has not run.
NotRun == [kind |-> "none", val |-> [t |-> "fail", s |-> <<>>, m |-> <<>>], raw |-> <<>>]

\* No model output received for decoding. x is the value a reply serializes.
NoReply == [pc |-> "idle", raw |-> <<>>, isJson |-> FALSE, x |-> NotRun.val,
            extracted |-> NotRun, parsed |-> NotRun, noisy |-> FALSE]

\* bootstrap_template not called yet. picked is the index, in the search results,
\* of the exemplar; called tells whether the templatizer has been called.
\* query is the request's query, meta the YAML metadata of the templatizer's
\* markdown, data the dict returned and saved the Template row find_templates creates.
NoTemplateFields == [title |-> "", file_description |-> "", doc_type |-> "",
                     similarity_tags |-> <<>>, variables |-> <<>>]
NoBootstrap == [pc |-> "idle", examples |-> <<>>, picked |-> 0, called |-> FALSE,
                result |-> "none", query |-> <<>>, meta |-> NoTemplateFields,
                fallback |-> <<>>, data |-> NoTemplateFields, saved |-> NoTemplateFields]

\* A key that an analysis result does not have.
Missing == "<missing>"

\* The DocumentType table (the names of its rows) before any call, with the
\* analysis result and the return value of the last get_or_create_document_type.
NoTypes == [names |-> {}, analysis |-> [document_type |-> Missing, confidence |-> 0,
                                       hasConfidence |-> FALSE],
            returned |-> "none"]

\* What a template operation answers: parsed template data, a status dict (code
\* 200 with a status other than success), or an HTTPException with its code.
TemplateData(meta, body) == [outcome |-> "parsed", code |-> 200, meta |-> meta, body |-> body]
StatusReply(status) == [outcome |-> status, code |-> 200, meta |-> {}, body |-> <<>>]
HttpError(code) == [outcome |-> "http", code |-> code, meta |-> {}, body |-> <<>>]

\* No template operation called yet.
NoTemplateCall == [op |-> "none", markdown |-> <<>>, found |-> FALSE,
                   out |-> StatusReply("none")]

\* The DocumentVariable table, empty, with no operation on it yet. variables and
\* fields are the inputs of the last operation.
NoVariableRows == [rows |-> <<>>, op |-> "none", documentId |-> "none", variables |-> <<>>,
                   fields |-> {}, value |-> "", code |-> 0]

\* No call of the oracle wrapper yet. messages is the list handed to _make_api_call,
\* chat_messages the turns sent to the provider.
NoApiCall == [pc |-> "idle", messages |-> <<>>, chat_messages |-> <<>>]

\* No text extraction running. direct is what the text layer gave, text the
\* extractor's current text, passes what each OCR pass over the file read (page by
\* page) and ocrRuns their number.
NoExtraction == [pc |-> "idle", entry |-> "none", extension |-> "none", direct |-> <<>>,
                 text |-> <<>>, passes |-> <<>>, ocrRuns |-> 0, result |-> <<>>]




VARIABLES impl, docs, vars, job, escaped, templates, lastReq, qgen,
          files, frows, fvars, dec, boot, dtypes, treq, dvt, oracle, ext, deletion, registry, ws

\* The upload directory (files), and the Document rows (frows) and the number of
\* DocumentVariable rows (fvars) of the documents whose files it holds.
uploadVars == <<files, frows, fvars>>

\* State of the subsystems other than the document store and its requests.
auxVars == <<uploadVars, dec, boot, dtypes, treq, dvt, oracle, ext, deletion, registry, ws>>

vars_ == <<impl, docs, vars, job, escaped, templates, lastReq, qgen, files, frows, fvars,
           dec, boot, dtypes, treq, dvt,
           oracle, ext, deletion, registry, ws>>

pipelineVars == <<impl, job, escaped>>
requestVars == <<templates, lastReq, qgen, auxVars>>

\* The document store, its jobs and its requests, which the other parts leave alone.
storeVars == <<pipelineVars, docs, vars, templates, lastReq, qgen>>

\* The deployment wires one implementation of the background job to the upload
\* (background_tasks.add_task); which one is fixed for the run.
Init ==
    /\ impl \in JobKinds
    /\ docs = [d \in DocIds |-> NoDoc]
    /\ vars = [d \in DocIds |-> <<>>]
    /\ job = [d \in DocIds |-> IdleJob]
    /\ escaped = [d \in DocIds |-> FALSE]
    /\ templates = [t \in TemplateIds |-> NoTemplate]
    /\ lastReq = NoRequest
    /\ qgen = IdleQuestions
    /\ files = [n \in Filenames |-> NoFile]
    /\ frows = [u \in UploadIds |-> UnusedRow]
    /\ fvars = [u \in UploadIds |-> 0]
    /\ dec = NoReply
    /\ boot = NoBootstrap
    /\ dtypes = NoTypes
    /\ treq = NoTemplateCall
    /\ dvt = NoVariableRows
    /\ oracle = NoApiCall
    /\ ext = NoExtraction
    /\ deletion = [d \in DocIds |-> NoDeletion]
    /\ registry = NoRegistry
    /\ ws = NoConnections

Exists(d) == docs[d].status # "absent"

\* The relation of DocumentVariable.documentId to Document in the Prisma schema: a
\* variable row can be inserted only for a Document row that exists, and the rows
\* of a document go with it when it is deleted.
RelationHolds(d) == Exists(d)

CascadeDelete(rows, d) == [rows EXCEPT ![d] = <<>>]

\* db.document.update(where={"id": d}, data=data): no row, no change.
\* An update that writes the row whether or not it is there.
DbUpsert(d, data) ==
    [docs EXCEPT ![d] = [f \in DOMAIN docs[d] |->
                            IF f \in DOMAIN data THEN data[f] ELSE docs[d][f]]]

DbUpdate(d, data) ==
    IF Exists(d)
    THEN [docs EXCEPT ![d] = [f \in DOMAIN docs[d] |->
                                 IF f \in DOMAIN data THEN data[f] ELSE docs[d][f]]]
    ELSE docs

\* ------------------------------------------------------- upload_document
\* The document is created as uploaded and its background job enqueued: "svc" is
\* DocumentService._process_document_background, "task" the tasks module's
\* process_document_in_background, which has the same signature.
upload_document(d, org) ==
    /\ ~Exists(d)
    /\ job[d].pc = "none"
    /\ \A e \in DocIds : e < d => job[e].pc # "none"
    /\ docs' = [docs EXCEPT ![d] = NewDoc(org)]
    /\ job' = [job EXCEPT ![d] = [IdleJob EXCEPT !.pc = "queued"]]
    /\ UNCHANGED <<requestVars, impl, vars, escaped>>

\* A job past its last use of its locals: only its kind and position remain.
Leave(j, pc) == [IdleJob EXCEPT !.pc = pc]

\* Where the job goes when an awaited call raises inside the outer try: the
\* except clause (document_service.py:131, document_tasks.py:157).
Raise(d) == [job EXCEPT ![d] = Leave(job[d], "handler")]

\* status -> processing (document_service.py:83, document_tasks.py:58)
SetProcessing(d) ==
    /\ job[d].pc = "queued"
    /\ \E raises \in BOOLEAN :
         IF raises
         THEN /\ job' = Raise(d)
              /\ UNCHANGED docs
         ELSE /\ docs' = DbUpdate(d, [status |-> "processing"])
              /\ job' = [job EXCEPT ![d].pc = "extract"]
    /\ UNCHANGED <<requestVars, impl, vars, escaped>>

\* The near-empty test on the extracted text: `not text.strip()` in the service
\* job, `not text_content or len(text_content.strip()) < 20` in the task job.
NearEmpty(kind, text) ==
    IF kind = "svc"
    THEN Strip(text) = <<>>
    ELSE text = <<>> \/ Len(Strip(text)) < MinTextLen

\* Text extraction: extract_text_from_file / safe_extract_text catch every error
\* and return "" instead, so the call itself never raises.
ExtractText(d) ==
    /\ job[d].pc = "extract"
    /\ \E t \in Texts :
         job' = [job EXCEPT ![d].text = t,
                            ![d].pc = IF NearEmpty(impl, t) THEN "fail_short"
                                      ELSE IF impl = "svc" THEN "analyze"
                                      ELSE "classify"]
    /\ UNCHANGED <<requestVars, impl, docs, vars, escaped>>

\* status -> failed and return (document_service.py:90-94, document_tasks.py:67-68)
FailNearEmpty(d) ==
    /\ job[d].pc = "fail_short"
    /\ \E raises \in BOOLEAN :
         IF raises
         THEN /\ job' = Raise(d)
              /\ UNCHANGED docs
         ELSE /\ docs' = DbUpdate(d, [status |-> "failed"])
              /\ job' = [job EXCEPT ![d] = Leave(job[d], "done")]
    /\ UNCHANGED <<requestVars, impl, vars, escaped>>

\* The except clause: status -> failed, by an update that nothing guards; when it
\* raises too the exception leaves the job.
Handler(d) ==
    /\ job[d].pc = "handler"
    /\ \E raises \in BOOLEAN :
         IF raises
         THEN /\ escaped' = [escaped EXCEPT ![d] = TRUE]
              /\ UNCHANGED docs
         ELSE /\ docs' = DbUpdate(d, [status |-> "failed"])
              /\ UNCHANGED escaped
    /\ job' = [job EXCEPT ![d] = Leave(job[d], "done")]
    /\ UNCHANGED <<requestVars, impl, vars>>

\* ------------------------------------- process_document_in_background (task)
\* A classifier failure that keeps whatever the reply was.
ClassifiedTypeKeepsReply(raised, raw) == StripLower(raw)

\* doc_type after step 2 and its inner try/except: the classifier's reply stripped
\* and lower-cased, or "unknown" when the call raised; either way step 3 is next.
ClassifiedType(raised, raw) == IF raised THEN "unknown" ELSE StripLower(raw)

Classify(d) ==
    /\ job[d].pc = "classify"
    /\ \E raised \in BOOLEAN, raw \in ClassifierOutputs :
         job' = [job EXCEPT ![d].doc_type = ClassifiedType(raised, raw),
                            ![d].clsRaised = raised,
                            ![d].pc = "insights"]
    /\ UNCHANGED <<requestVars, impl, docs, vars, escaped>>

\* summary, entities_raw = await asyncio.gather(summary_task, entities_task) inside
\* try/except Exception: the first exception of either task leaves the gather, and
\* the except clause sets both results.
GatherInsights(sumRaised, sumOut, entRaised, entOut) ==
    IF sumRaised \/ entRaised
    THEN [summary |-> FailedSummary, entities_raw |-> Str("{}")]
    ELSE [summary |-> sumOut, entities_raw |-> entOut]

\* Steps 3 and 4: the two oracle calls, then safe_parse_json of the entities.
GenerateInsights(d) ==
    /\ job[d].pc = "insights"
    /\ \E sumRaised \in BOOLEAN, entRaised \in BOOLEAN,
          sumOut \in SummaryOutputs, entOut \in EntityOutputs :
         LET g == GatherInsights(sumRaised, sumOut, entRaised, entOut)
         IN job' = [job EXCEPT ![d].summary = g.summary,
                               ![d].entities = SafeParseJson(g.entities_raw),
                               ![d].sumRaised = sumRaised,
                               ![d].entRaised = entRaised,
                               ![d].entOut = IF entRaised THEN Dict(<<>>) ELSE entOut,
                               ![d].pc = "save_vars"]
    /\ UNCHANGED <<requestVars, impl, docs, vars, escaped>>

\* DocumentVariableService.bulk_create_variables: one row per element, appended.
bulk_create_variables(rows, variables) ==
    rows \o [i \in 1..Len(variables) |->
               [name |-> variables[i].name, value |-> variables[i].value, src |-> "pipeline"]]

\* Step 5's list: one variable per key of the entities dict.
EntityVariables(entities) ==
    [i \in 1..Len(entities.keys) |-> [name |-> entities.keys[i], value |-> "extracted"]]

\* Step 5, in its own try/except: a failed insert is logged and the job goes on.
SaveVariables(d) ==
    /\ job[d].pc = "save_vars"
    /\ IF job[d].entities.kind = "dict" /\ job[d].entities.keys # <<>>
       THEN \E raises \in BOOLEAN :
              /\ vars' = IF raises THEN vars
                         ELSE [vars EXCEPT ![d] = bulk_create_variables(vars[d],
                                                     EntityVariables(job[d].entities))]
              /\ job' = [job EXCEPT ![d].varsRaised = raises, ![d].pc = "persist"]
       ELSE /\ job' = [job EXCEPT ![d].pc = "persist"]
            /\ UNCHANGED vars
    /\ UNCHANGED <<requestVars, impl, docs, escaped>>

\* structured_insights of step 6
StructuredInsights(j) ==
    [kind |-> "structured",
     document_type |-> j.doc_type,
     summary |-> IF j.summary # "" THEN j.summary ELSE "No summary available.",
     entities |-> j.entities,
     confidence_level |-> IF Truthy(j.entities) THEN "medium" ELSE "low"]

\* Step 6: status -> completed together with insights, documentType and fullText.
PersistCompleted(d) ==
    /\ job[d].pc = "persist"
    /\ \E raises \in BOOLEAN :
         IF raises
         THEN /\ job' = Raise(d)
              /\ UNCHANGED docs
         ELSE /\ docs' = DbUpdate(d, [status |-> "completed",
                                      insights |-> StructuredInsights(job[d]),
                                      documentType |-> job[d].doc_type,
                                      fullText |-> SomeText(job[d].text)])
              /\ job' = [job EXCEPT ![d] = Leave(job[d], "done")]
    /\ UNCHANGED <<requestVars, impl, vars, escaped>>

\* ------------------------- DocumentService._process_document_background (svc)
AnalyzerTypes == {"Invoice"}

\* analyze_document_text: the oracle call raises, or its reply does not parse
\* ({"error": ...}), or it parses into {title, document_type, fields}.
AnalysisOutcomes ==
    { [kind |-> "raise", document_type |-> NullStr, fields |-> <<>>],
      [kind |-> "error", document_type |-> NullStr, fields |-> <<>>] }
    \cup { [kind |-> "ok", document_type |-> t, fields |-> f] :
             t \in AnalyzerTypes, f \in AnalysisFields }

Analyze(d) ==
    /\ job[d].pc = "analyze"
    /\ \E a \in AnalysisOutcomes :
         job' = IF a.kind = "raise" THEN Raise(d)
                ELSE IF a.kind = "error"
                THEN [job EXCEPT ![d] = Leave(job[d], "fail_analysis")]
                ELSE [job EXCEPT ![d].doc_type = a.document_type,
                                 ![d].fields = a.fields,
                                 ![d].pc = "svc_persist"]
    /\ UNCHANGED <<requestVars, impl, docs, vars, escaped>>

\* if "error" in analysis: status -> failed and return (document_service.py:98-103)
FailAnalysis(d) ==
    /\ job[d].pc = "fail_analysis"
    /\ \E raises \in BOOLEAN :
         IF raises
         THEN /\ job' = Raise(d)
              /\ UNCHANGED docs
         ELSE /\ docs' = DbUpdate(d, [status |-> "failed"])
              /\ job' = [job EXCEPT ![d] = Leave(job[d], "done")]
    /\ UNCHANGED <<requestVars, impl, vars, escaped>>

\* json.dumps(analysis)
AnalysisInsights(j) == [kind |-> "analysis", document_type |-> j.doc_type, fields |-> j.fields]

\* What follows the completed update: the variable insert when there are fields.
AfterSvcPersist(j) == IF j.fields # <<>> THEN "svc_vars" ELSE "done"

\* status -> completed with fullText, documentType, metadata and insights
\* (document_service.py:105-114); the variables come after it.
SvcPersistCompleted(d) ==
    /\ job[d].pc = "svc_persist"
    /\ \E raises \in BOOLEAN :
         IF raises
         THEN /\ job' = Raise(d)
              /\ UNCHANGED docs
         ELSE /\ docs' = DbUpdate(d, [status |-> "completed",
                                      fullText |-> SomeText(job[d].text),
                                      documentType |-> job[d].doc_type,
                                      insights |-> AnalysisInsights(job[d])])
              /\ job' = IF AfterSvcPersist(job[d]) = "done"
                        THEN [job EXCEPT ![d] = Leave(job[d], "done")]
                        ELSE [job EXCEPT ![d].pc = "svc_vars"]
    /\ UNCHANGED <<requestVars, impl, vars, escaped>>

\* f["name"] of every field: a KeyError when one has no name.
HasNames(fields) == \A i \in 1..Len(fields) : fields[i].name # NullStr

FieldVariables(fields) ==
    [i \in 1..Len(fields) |-> [name |-> fields[i].name, value |-> "extracted"]]

\* The bulk insert of the analysis fields (document_service.py:116-129), inside the
\* outer try: building the list or the insert may raise.
SvcSaveVariables(d) ==
    /\ job[d].pc = "svc_vars"
    /\ IF ~HasNames(job[d].fields)
       THEN /\ job' = Raise(d)
            /\ UNCHANGED vars
       ELSE \E raises \in BOOLEAN :
              IF raises \/ ~RelationHolds(d)
              THEN /\ job' = [job EXCEPT ![d] = [Leave(job[d], "handler")
                                                   EXCEPT !.varsRaised = TRUE]]
                   /\ UNCHANGED vars
              ELSE /\ vars' = [vars EXCEPT ![d] = bulk_create_variables(vars[d],
                                                      FieldVariables(job[d].fields))]
                   /\ job' = [job EXCEPT ![d] = Leave(job[d], "done")]
    /\ UNCHANGED <<requestVars, impl, docs, escaped>>

\* ---------------------------------------------------------------- the system
\* A step of DocumentService._process_document_background
SvcJobStep(d) ==
    \/ SetProcessing(d)
    \/ ExtractText(d)
    \/ FailNearEmpty(d)
    \/ Analyze(d)
    \/ FailAnalysis(d)
    \/ SvcPersistCompleted(d)
    \/ SvcSaveVariables(d)
    \/ Handler(d)

JobStep(d) ==
    \/ SvcJobStep(d)
    \/ Classify(d)
    \/ GenerateInsights(d)
    \/ SaveVariables(d)
    \/ PersistCompleted(d)

Next ==
    \/ \E d \in DocIds, org \in Orgs : upload_document(d, org)
    \/ \E d \in DocIds : JobStep(d)

Spec == Init /\ [][Next]_vars_

\* ------------------------------------------------------- request handlers
Lookup(d) == IF d \in DocIds THEN docs[d] ELSE NoDoc

LookupTemplate(t) == IF t \in TemplateIds THEN templates[t] ELSE NoTemplate

RowsOf(d) == IF d \in DocIds THEN vars[d] ELSE <<>>

\* A handler's outcome: the status code and body it answers with, the store it
\* leaves, and the owner orgs of the records it has read into the answer,
\* changed or deleted.
Result(code, body, touched, docs2, vars2) ==
    [code |-> code, body |-> body, touched |-> touched, docs |-> docs2, vars |-> vars2]

\* raise HTTPException(status_code=403, detail="Unauthorized")
Unauthorized == Result(403, [detail |-> "Unauthorized"], {}, docs, vars)

\* A guard that forgets the org.
AuthorizedAnyOrg(d, org) == ~(Lookup(d).status = "absent")

\* The guard of every DocumentService operation, negated:
\* `if not doc or doc.orgId != org_id: raise`
Authorized(d, org) == ~(Lookup(d).status = "absent" \/ Lookup(d).orgId # org)

get_document_fields(d, org) ==
    IF ~Authorized(d, org) THEN Unauthorized
    ELSE Result(200, [rows |-> vars[d]], {docs[d].orgId}, docs, vars)

\* db.documentvariable.update_many(where={"documentId": d, "name": key}, ...)
UpdateMany(rows, key, value) ==
    [i \in 1..Len(rows) |-> IF rows[i].name = key THEN [rows[i] EXCEPT !.value = value]
                            ELSE rows[i]]

\* An update of the fields that writes the document's row as well.
UpdateFieldsMarksDocument(d, key, value, org) ==
    IF ~Authorized(d, org) THEN Unauthorized
    ELSE Result(200, [message |-> "Fields updated successfully"], {docs[d].orgId},
                [docs EXCEPT ![d].status = "processing"],
                [vars EXCEPT ![d] = UpdateMany(vars[d], key, value)])

update_document_fields(d, key, value, org) ==
    IF ~Authorized(d, org) THEN Unauthorized
    ELSE Result(200, [message |-> "Fields updated successfully"], {docs[d].orgId},
                docs, [vars EXCEPT ![d] = UpdateMany(vars[d], key, value)])

get_document_file_path(d, org) ==
    IF ~Authorized(d, org) THEN Unauthorized
    ELSE Result(200, [filePath |-> d], {docs[d].orgId}, docs, vars)

get_processing_status(d, org) ==
    IF ~Authorized(d, org) THEN Unauthorized
    ELSE Result(200, [document_id |-> d, status |-> docs[d].status], {docs[d].orgId},
                docs, vars)

get_document_insights(d, org) ==
    IF ~Authorized(d, org) THEN Unauthorized
    ELSE Result(200, [insights |-> docs[d].insights], {docs[d].orgId}, docs, vars)

\* analyze_document_text takes one argument and is called with two: a TypeError,
\* answered as an internal error, once the guard has passed.
query_document(d, org) ==
    IF ~Authorized(d, org) THEN Unauthorized
    ELSE Result(500, [detail |-> "Internal Server Error"], {docs[d].orgId}, docs, vars)

delete_document(d, org) ==
    IF ~Authorized(d, org) THEN Unauthorized
    ELSE Result(200, [message |-> "Document deleted successfully"], {docs[d].orgId},
                [docs EXCEPT ![d] = NoDoc], [vars EXCEPT ![d] = <<>>])

\* get_all_documents: find_many(where={"orgId": org_id})
get_all_documents(org) ==
    Result(200, [ids |-> {d \in DocIds : docs[d].orgId = org}],
           {docs[d].orgId : d \in {e \in DocIds : docs[e].orgId = org}}, docs, vars)

\* The /document-variables routes take no org: the handlers act on whatever row or
\* document the id names.
create_variable(d, name, value) ==
    IF Lookup(d).status = "absent"
    THEN Result(500, [detail |-> "foreign key"], {}, docs, vars)
    ELSE Result(200, [created |-> name], {docs[d].orgId}, docs,
                [vars EXCEPT ![d] = Append(vars[d], [name |-> name, value |-> value,
                                                     src |-> "api"])])

get_variables(d) ==
    Result(200, [rows |-> RowsOf(d)],
           IF RowsOf(d) # <<>> THEN {Lookup(d).orgId} ELSE {}, docs, vars)

update_variable(d, i, value) ==
    IF i \in 1..Len(RowsOf(d))
    THEN Result(200, [updated |-> i], {Lookup(d).orgId}, docs,
                [vars EXCEPT ![d][i].value = value])
    ELSE Result(200, [data |-> "null"], {}, docs, vars)

RemoveAt(rows, i) == SubSeq(rows, 1, i - 1) \o SubSeq(rows, i + 1, Len(rows))

delete_variable(d, i) ==
    IF i \in 1..Len(RowsOf(d))
    THEN Result(200, [deleted |-> i], {Lookup(d).orgId}, docs,
                [vars EXCEPT ![d] = RemoveAt(vars[d], i)])
    ELSE Result(200, [data |-> "null"], {}, docs, vars)

\* Templates. find_unique(where={"id": id, "orgId": org_id}) finds the row or None.
FindTemplate(t, org) == LookupTemplate(t) # NoTemplate /\ LookupTemplate(t) = org

fill_template(t, org) ==
    IF ~FindTemplate(t, org)
    THEN Result(404, [detail |-> "Template not found."], {}, docs, vars)
    ELSE Result(200, [draft_markdown |-> t], {templates[t]}, docs, vars)

\* The 404 is raised inside the try and caught by its `except Exception`.
get_template_by_id(t, org) ==
    IF ~FindTemplate(t, org)
    THEN Result(500, [detail |-> "Failed to fetch template"], {}, docs, vars)
    ELSE Result(200, [template |-> t], {templates[t]}, docs, vars)

get_all_templates(org) ==
    Result(200, [ids |-> {t \in TemplateIds : templates[t] = org}],
           {templates[t] : t \in {u \in TemplateIds : templates[u] = org}}, docs, vars)

\* prefill_variables_from_query, generate_questions and export_document look the
\* template up by id alone: find_unique(where={"id": template_id}).
TemplateById(t, what) ==
    IF LookupTemplate(t) = NoTemplate
    THEN Result(404, [detail |-> "Template not found."], {}, docs, vars)
    ELSE Result(200, [template |-> t, what |-> what], {templates[t]}, docs, vars)

prefill_variables_from_query(t) == TemplateById(t, "detected_variables")

generate_questions(t) == TemplateById(t, "missing_variables_questions")

export_document(t) == TemplateById(t, "file")

\* How the id a request names relates to the requesting org.
OwnerCase(owner, org) ==
    IF owner \in {"none"} THEN "missing" ELSE IF owner = org THEN "own" ELSE "foreign"

\* The request is served: the store becomes what the handler leaves; of the answer
\* it is recorded whose record the id named, whether the request was refused (any
\* status but 200) and whether a record of another org went into it.
Serve(h, owner, org) ==
    /\ docs' = h.docs
    /\ vars' = h.vars
    /\ lastReq' = [case |-> OwnerCase(owner, org), refused |-> h.code # 200,
                   leak |-> ~(h.touched \subseteq {org})]
    /\ UNCHANGED <<pipelineVars, templates, qgen, auxVars>>

EditValues == {"edited"}
ApiNames == {"total"}

\* /documents routes that read one document: fields, file, status, insights, query
DocumentReadsApi ==
    \E d \in RequestDocIds, org \in Orgs :
       \/ Serve(get_document_fields(d, org), Lookup(d).orgId, org)
       \/ Serve(get_document_file_path(d, org), Lookup(d).orgId, org)
       \/ Serve(get_processing_status(d, org), Lookup(d).orgId, org)
       \/ Serve(get_document_insights(d, org), Lookup(d).orgId, org)
       \/ Serve(query_document(d, org), Lookup(d).orgId, org)

\* DELETE /documents/{id}
DocumentDeleteApi ==
    \E d \in RequestDocIds, org \in Orgs :
       Serve(delete_document(d, org), Lookup(d).orgId, org)

\* /documents routes whose answer is about one document
DocumentsApi == DocumentReadsApi \/ DocumentDeleteApi

\* PUT /documents/{id}/fields and GET /documents/
DocumentsEditApi ==
    \E d \in RequestDocIds, org \in Orgs :
       \/ \E k \in ApiNames, v \in EditValues :
            Serve(update_document_fields(d, k, v, org), Lookup(d).orgId, org)
       \/ Serve(get_all_documents(org), org, org)

\* GET /document-variables/{document_id} and PUT /document-variables/{variable_id}
VariablesEditApi ==
    \E d \in RequestDocIds, org \in Orgs :
       \/ Serve(get_variables(d), Lookup(d).orgId, org)
       \/ \E i \in 1..(Len(RowsOf(d)) + 1), v \in EditValues :
            Serve(update_variable(d, i, v), Lookup(d).orgId, org)

\* POST /document-variables and DELETE /document-variables/{variable_id}
VariablesCreateDeleteApi ==
    \E d \in RequestDocIds, org \in Orgs :
       \/ /\ Len(RowsOf(d)) < MaxRows
          /\ \E k \in ApiNames :
               Serve(create_variable(d, k, "manual"), Lookup(d).orgId, org)
       \/ \E i \in 1..(Len(RowsOf(d)) + 1) :
            Serve(delete_variable(d, i), Lookup(d).orgId, org)

\* /document-variables routes
DocumentVariablesApi == VariablesEditApi \/ VariablesCreateDeleteApi

\* template fetch and fill
TemplatesApi ==
    \E t \in RequestTemplateIds, org \in Orgs :
       \/ Serve(fill_template(t, org), LookupTemplate(t), org)
       \/ Serve(get_template_by_id(t, org), LookupTemplate(t), org)

\* the template list, prefill, question generation and export
TemplatesByIdApi ==
    \E t \in RequestTemplateIds, org \in Orgs :
       \/ Serve(get_all_templates(org), org, org)
       \/ Serve(prefill_variables_from_query(t), LookupTemplate(t), org)
       \/ Serve(generate_questions(t), LookupTemplate(t), org)
       \/ Serve(export_document(t), LookupTemplate(t), org)

\* save_template: db.template.create(data={..., "orgId": org_id})
save_template(t, org) ==
    /\ templates[t] = NoTemplate
    /\ templates' = [templates EXCEPT ![t] = org]
    /\ lastReq' = [case |-> "own", refused |-> FALSE, leak |-> FALSE]
    /\ UNCHANGED <<pipelineVars, docs, vars, qgen, auxVars>>

\* The store as the deployed application drives it: upload_document enqueues
\* DocumentService._process_document_background.
InitReq == Init /\ impl = "svc"

NextScope ==
    \/ \E d \in DocIds, org \in Orgs : upload_document(d, org)
    \/ \E d \in DocIds : SvcJobStep(d)
    \/ \E t \in TemplateIds, org \in Orgs : save_template(t, org)
    \/ DocumentsApi
    \/ TemplatesApi

\* The document and template operations that answer about one id under an org.
SpecScope == InitReq /\ [][NextScope]_vars_

NextReq ==
    \/ NextScope
    \/ DocumentsEditApi
    \/ DocumentVariablesApi
    \/ TemplatesByIdApi

\* Every request handler.
SpecReq == InitReq /\ [][NextReq]_vars_

NextFrame ==
    \/ \E d \in DocIds, org \in Orgs : upload_document(d, org)
    \/ \E d \in DocIds : SvcJobStep(d)
    \/ DocumentReadsApi
    \/ DocumentsEditApi
    \/ VariablesEditApi

\* Documents that are never deleted: their jobs, the reads and the variable edits.
SpecFrame == InitReq /\ [][NextFrame]_vars_

\* ------------------------------------------------- generate_questions, step by step
\* question_text.strip().replace('"', '') on a reply, as a sequence of characters
RECURSIVE RemoveQuotes(_)
RemoveQuotes(s) ==
    IF s = <<>> THEN <<>>
    ELSE IF Head(s) = "\"" THEN RemoveQuotes(Tail(s))
    ELSE <<Head(s)>> \o RemoveQuotes(Tail(s))

\* The oracle's replies to a question prompt.
OracleQuestions == { <<"Q", "?">>, <<" ", "\"", "Q", "?", "\"", "\n">> }

\* str.strip() removes line ends as well as blanks.
StripWhitespace(s) == Strip([i \in 1..Len(s) |-> IF s[i] = "\n" THEN " " ELSE s[i]])

\* QuestionGeneratorAgent.process: the reply to the prompt built from one variable's
\* label, cleaned.
Question(label, reply) == [about |-> label, text |-> RemoveQuotes(StripWhitespace(reply))]

\* A task of the gather that has not completed.
Pending == [about |-> 0, text |-> <<>>]

\* missing_vars: the required variables whose key is not in filled_variables
IsMissing(v, filled) == v.required /\ v.key \notin filled

RECURSIVE Filter(_, _)
Filter(variables, filled) ==
    IF variables = <<>> THEN <<>>
    ELSE IF IsMissing(Head(variables), filled)
         THEN <<Head(variables)>> \o Filter(Tail(variables), filled)
         ELSE Filter(Tail(variables), filled)

Min(a, b) == IF a < b THEN a ELSE b

\* zip(missing_vars, generated_questions) into {"key", "question", "example"}
QuestionsToAsk(missing_vars, generated_questions) ==
    [i \in 1..Min(Len(missing_vars), Len(generated_questions)) |->
        [key |-> missing_vars[i].key, question |-> generated_questions[i],
         example |-> missing_vars[i].example]]

\* What the gather would hand back if it listed results as they complete.
GatherAsCompleted(results, completed) == [i \in 1..Len(completed) |-> results[completed[i]]]

\* asyncio.gather(*tasks): the results in the order of the tasks.
Gather(results, completed) == results

\* Lines 45-62: the template is looked up by id; the missing variables and one
\* oracle task for each of them are built from template.variables.
GenerateQuestionsBegin(t, required, filled) ==
    /\ qgen.pc \in {"idle", "returned", "raised", "not_found"}
    /\ IF LookupTemplate(t) = NoTemplate
       THEN qgen' = [IdleQuestions EXCEPT !.pc = "not_found"]
       ELSE LET variables == TemplateVariables(required)
                missing == Filter(variables, filled)
            IN qgen' = [IdleQuestions EXCEPT
                          !.pc = "gather",
                          !.variables = variables,
                          !.filled_variables = filled,
                          !.missing_vars = missing,
                          !.generated_questions = [i \in 1..Len(missing) |-> Pending]]
    /\ UNCHANGED <<pipelineVars, docs, vars, templates, lastReq, auxVars>>

\* One of the concurrent oracle calls completes with a reply.
OracleReplies(i) ==
    /\ qgen.pc = "gather"
    /\ i \in 1..Len(qgen.missing_vars)
    /\ qgen.generated_questions[i] = Pending
    /\ \E reply \in OracleQuestions :
         qgen' = [qgen EXCEPT
                    !.generated_questions[i] = Question(qgen.missing_vars[i].label, reply),
                    !.completed = Append(@, i)]
    /\ UNCHANGED <<pipelineVars, docs, vars, templates, lastReq, auxVars>>

\* One of the calls raises: the gather raises it and the handler ends without an
\* answer of its own.
OracleRaises(i) ==
    /\ qgen.pc = "gather"
    /\ i \in 1..Len(qgen.missing_vars)
    /\ qgen.generated_questions[i] = Pending
    /\ qgen' = [qgen EXCEPT !.pc = "raised"]
    /\ UNCHANGED <<pipelineVars, docs, vars, templates, lastReq, auxVars>>

\* Lines 65-73: every call has completed; the questions are zipped with the
\* missing variables and returned.
GenerateQuestionsReturn ==
    /\ qgen.pc = "gather"
    /\ Len(qgen.completed) = Len(qgen.missing_vars)
    /\ qgen' = [qgen EXCEPT
                  !.pc = "returned",
                  !.questions_to_ask =
                      QuestionsToAsk(qgen.missing_vars,
                                     Gather(qgen.generated_questions, qgen.completed))]
    /\ UNCHANGED <<pipelineVars, docs, vars, templates, lastReq, auxVars>>

RequiredFlags == UNION { [1..n -> BOOLEAN] : n \in 0..MaxTemplateVars }

\* filled_variables may also name a key that no variable has.
FilledSets == SUBSET (1..(MaxTemplateVars + 1))

NextQ ==
    \/ \E t \in TemplateIds, org \in Orgs : save_template(t, org)
    \/ \E t \in RequestTemplateIds, required \in RequiredFlags, filled \in FilledSets :
         GenerateQuestionsBegin(t, required, filled)
    \/ \E i \in 1..MaxTemplateVars : OracleReplies(i)
    \/ \E i \in 1..MaxTemplateVars : OracleRaises(i)
    \/ GenerateQuestionsReturn

\* One generate_questions call at a time, its oracle calls completing in any order.
SpecQ == InitReq /\ [][NextQ]_vars_

\* ------------------------------------------------- model output as JSON text
\* A text is a sequence of tokens: a punctuation mark, a blank, a digit, a word, or
\* the three backticks of a Markdown fence.
Blank == " "

\* The three backticks of a Markdown fence, one token.
Fence == "<fence>"

RECURSIVE SkipWs(_, _)
SkipWs(s, i) == IF i <= Len(s) /\ s[i] = Blank THEN SkipWs(s, i + 1) ELSE i

\* JSON values: t is the kind, s the characters of a string or number, m the
\* members [k, v] of an object or the elements of an array.
FailVal == [t |-> "fail", s |-> <<>>, m |-> <<>>]
JStr(x) == [t |-> "str", s |-> x, m |-> <<>>]
JNum(x) == [t |-> "num", s |-> x, m |-> <<>>]
JNull == [t |-> "null", s |-> <<>>, m |-> <<>>]
JObj(members) == [t |-> "obj", s |-> <<>>, m |-> members]
JArr(elements) == [t |-> "arr", s |-> <<>>, m |-> elements]

Parsed(v, next) == [ok |-> TRUE, val |-> v, next |-> next]
NoParse == [ok |-> FALSE, val |-> FailVal, next |-> 0]

\* The index of the first quote at or after i, 0 when there is none.
RECURSIVE ClosingQuote(_, _)
ClosingQuote(s, i) ==
    IF i > Len(s) THEN 0 ELSE IF s[i] = "\"" THEN i ELSE ClosingQuote(s, i + 1)

ParseString(s, i) ==
    IF i <= Len(s) /\ s[i] = "\"" /\ ClosingQuote(s, i + 1) # 0
    THEN Parsed(JStr(SubSeq(s, i + 1, ClosingQuote(s, i + 1) - 1)), ClosingQuote(s, i + 1) + 1)
    ELSE NoParse

\* The index after the run of digits that starts at i.
RECURSIVE DigitsEnd(_, _)
DigitsEnd(s, i) == IF i <= Len(s) /\ s[i] = "1" THEN DigitsEnd(s, i + 1) ELSE i

RECURSIVE ParseValue(_, _)
RECURSIVE ParseMembers(_, _, _)
RECURSIVE ParseElements(_, _, _)

\* The JSON grammar json.loads accepts, on these tokens: objects, arrays, strings,
\* numbers and null.
ParseValue(s, i) ==
    IF i > Len(s) THEN NoParse
    ELSE IF s[i] = "\"" THEN ParseString(s, i)
    ELSE IF s[i] = "1" THEN Parsed(JNum(SubSeq(s, i, DigitsEnd(s, i) - 1)), DigitsEnd(s, i))
    ELSE IF s[i] = "null" THEN Parsed(JNull, i + 1)
    ELSE IF s[i] = "{"
         THEN LET j == SkipWs(s, i + 1)
              IN IF j <= Len(s) /\ s[j] = "}" THEN Parsed(JObj(<<>>), j + 1)
                 ELSE ParseMembers(s, j, <<>>)
    ELSE IF s[i] = "["
         THEN LET j == SkipWs(s, i + 1)
              IN IF j <= Len(s) /\ s[j] = "]" THEN Parsed(JArr(<<>>), j + 1)
                 ELSE ParseElements(s, j, <<>>)
    ELSE NoParse

ParseMembers(s, i, acc) ==
    LET k == ParseString(s, i)
        c == SkipWs(s, k.next)
        v == ParseValue(s, SkipWs(s, c + 1))
        e == SkipWs(s, v.next)
        acc2 == Append(acc, [k |-> k.val.s, v |-> v.val])
    IN IF ~k.ok THEN NoParse
       ELSE IF c > Len(s) \/ s[c] # ":" THEN NoParse
       ELSE IF ~v.ok THEN NoParse
       ELSE IF e > Len(s) THEN NoParse
       ELSE IF s[e] = "}" THEN Parsed(JObj(acc2), e + 1)
       ELSE IF s[e] = "," THEN ParseMembers(s, SkipWs(s, e + 1), acc2)
       ELSE NoParse

ParseElements(s, i, acc) ==
    LET v == ParseValue(s, i)
        e == SkipWs(s, v.next)
        acc2 == Append(acc, v.val)
    IN IF ~v.ok THEN NoParse
       ELSE IF e > Len(s) THEN NoParse
       ELSE IF s[e] = "]" THEN Parsed(JArr(acc2), e + 1)
       ELSE IF s[e] = "," THEN ParseElements(s, SkipWs(s, e + 1), acc2)
       ELSE NoParse

\* json.loads(text): one value with blanks around it, or JSONDecodeError (ok = FALSE).
JsonLoads(s) ==
    LET r == ParseValue(s, SkipWs(s, 1))
    IN IF r.ok /\ SkipWs(s, r.next) = Len(s) + 1 THEN r ELSE NoParse

\* What a decoder does with a text: a value, the sentinel {"error": "Invalid JSON",
\* "raw_output": raw}, or an exception.
Decoded(v) == [kind |-> "value", val |-> v, raw |-> <<>>]
Sentinel(raw) == [kind |-> "sentinel", val |-> FailVal, raw |-> raw]
Raised == [kind |-> "raise", val |-> FailVal, raw |-> <<>>]

\* re.sub(r"^```(?:json)?", "", text)
StripFenceStart(s) ==
    IF s # <<>> /\ s[1] = Fence
    THEN IF Len(s) >= 2 /\ s[2] = "json" THEN SubSeq(s, 3, Len(s)) ELSE Tail(s)
    ELSE s

\* re.sub(r"```$", "", text)
StripFenceEnd(s) ==
    IF s # <<>> /\ s[Len(s)] = Fence THEN SubSeq(s, 1, Len(s) - 1) ELSE s

\* re.sub(r",(\s*[}\]])", r"\1", text): every comma that blanks and a closing brace
\* or bracket follow is dropped, wherever it stands.
RECURSIVE RemoveTrailingCommas(_, _)
RemoveTrailingCommas(s, i) ==
    IF i > Len(s) THEN <<>>
    ELSE LET j == SkipWs(s, i + 1)
         IN (IF s[i] = "," /\ j <= Len(s) /\ s[j] \in {"}", "]"} THEN <<>> ELSE <<s[i]>>)
            \o RemoveTrailingCommas(s, i + 1)

Indexes(s, tok) == { i \in 1..Len(s) : s[i] = tok }
MinOf(S) == CHOOSE x \in S : \A y \in S : x <= y
MaxOf(S) == CHOOSE x \in S : \A y \in S : x >= y

\* re.search(r"(\{.*\})", text, re.DOTALL): from the first "{" to the last "}" after it
HasInnerBlock(s) ==
    /\ Indexes(s, "{") # {}
    /\ \E l \in Indexes(s, "}") : l > MinOf(Indexes(s, "{"))

InnerBlock(s) == SubSeq(s, MinOf(Indexes(s, "{")), MaxOf(Indexes(s, "}")))

\* text.replace("None", "null")
ReplaceNone(s) == [i \in 1..Len(s) |-> IF s[i] = "None" THEN "null" ELSE s[i]]

\* re.sub(r":\s*,", ": null,", text)
RECURSIVE FillMissingValues(_, _)
FillMissingValues(s, i) ==
    IF i > Len(s) THEN <<>>
    ELSE LET j == SkipWs(s, i + 1)
         IN IF s[i] = ":" /\ j <= Len(s) /\ s[j] = ","
            THEN <<":", Blank, "null", ",">> \o FillMissingValues(s, j + 1)
            ELSE <<s[i]>> \o FillMissingValues(s, i + 1)

\* DocumentTypeAnalyzer._extract_json_from_text
extract_json_from_text(raw) ==
    IF Strip(raw) = <<>> THEN Raised
    ELSE LET text == RemoveTrailingCommas(
                        Strip(StripFenceEnd(StripFenceStart(Strip(raw)))), 1)
             direct == JsonLoads(text)
             inner == JsonLoads(RemoveTrailingCommas(InnerBlock(text), 1))
             last == JsonLoads(FillMissingValues(ReplaceNone(text), 1))
         IN IF direct.ok THEN Decoded(direct.val)
            ELSE IF HasInnerBlock(text) /\ inner.ok THEN Decoded(inner.val)
            ELSE IF last.ok THEN Decoded(last.val)
            ELSE Raised

\* Where the group of r"```(?:json)?\s*(\{" starts for a fence at p.
FenceBody(s, p) == SkipWs(s, IF p + 1 <= Len(s) /\ s[p + 1] = "json" THEN p + 2 ELSE p + 1)

\* The closing braces that blanks and a fence follow, after j.
FenceClosers(s, j) ==
    { q \in Indexes(s, "}") :
        q > j /\ SkipWs(s, q + 1) <= Len(s) /\ s[SkipWs(s, q + 1)] = Fence }

\* The fences at which r"```(?:json)?\s*(\{.*?\})\s*```" matches.
FenceStarts(s) ==
    { p \in Indexes(s, Fence) :
        /\ FenceBody(s, p) <= Len(s)
        /\ s[FenceBody(s, p)] = "{"
        /\ FenceClosers(s, FenceBody(s, p)) # {} }

\* json_match.group(1): leftmost fence, shortest body
FencedJson(s) ==
    LET j == FenceBody(s, MinOf(FenceStarts(s)))
    IN SubSeq(s, j, MinOf(FenceClosers(s, j)))

\* safe_parse_json on a string, character by character
safe_parse_json(raw) ==
    LET json_str == IF FenceStarts(raw) # {} THEN FencedJson(raw) ELSE Strip(raw)
        r == JsonLoads(json_str)
    IN IF r.ok THEN Decoded(r.val) ELSE Sentinel(raw)

\* json.dumps(x), with its ", " and ": " separators
RECURSIVE Serialize(_)
RECURSIVE SerializeMembers(_, _)
RECURSIVE SerializeElements(_, _)
Serialize(v) ==
    CASE v.t = "str" -> <<"\"">> \o v.s \o <<"\"">>
      [] v.t = "num" -> v.s
      [] v.t = "null" -> <<"null">>
      [] v.t = "obj" -> <<"{">> \o SerializeMembers(v.m, 1) \o <<"}">>
      [] v.t = "arr" -> <<"[">> \o SerializeElements(v.m, 1) \o <<"]">>

SerializeMembers(m, i) ==
    IF i > Len(m) THEN <<>>
    ELSE (IF i > 1 THEN <<",", Blank>> ELSE <<>>)
         \o <<"\"">> \o m[i].k \o <<"\"", ":", Blank>> \o Serialize(m[i].v)
         \o SerializeMembers(m, i + 1)

SerializeElements(m, i) ==
    IF i > Len(m) THEN <<>>
    ELSE (IF i > 1 THEN <<",", Blank>> ELSE <<>>) \o Serialize(m[i])
         \o SerializeElements(m, i + 1)

SeqsUpTo(S, n) == UNION { [1..k -> S] : k \in 0..n }

\* Replies of any shape: json, prose, fences, braces, quotes, None.
RawTokens == {"{", "}", ",", ":", "\"", Fence, "None", Blank, "a", "1"}
RawTexts == SeqsUpTo(RawTokens, MaxRawLen)

\* JSON values whose strings hold commas, braces, fences and the text None.
StrTokens == {",", "}", "{", Fence, "None"}
JsonStrings == { JStr(c) : c \in SeqsUpTo(StrTokens, MaxStrLen) }
JsonValues ==
    JsonStrings
    \cup { JObj(<<[k |-> <<"k">>, v |-> x]>>) : x \in JsonStrings }
    \cup { JNull, JNum(<<"1">>), JObj(<<>>), JArr(<<>>), JArr(<<JNum(<<"1">>), JNull>>),
           JObj(<<[k |-> <<"a">>, v |-> JNull], [k |-> <<"k">>, v |-> JArr(<<>>)]>>) }

notJson == <<storeVars, uploadVars, boot, dtypes, treq, dvt,
    oracle, ext, deletion, registry, ws>>

\* A model reply arrives.
ReceiveText(raw) ==
    /\ dec.pc = "idle"
    /\ dec' = [NoReply EXCEPT !.pc = "received", !.raw = raw]
    /\ UNCHANGED notJson

\* The reply is the serialization of a JSON value.
ReceiveSerialized(x) ==
    /\ dec.pc = "idle"
    /\ dec' = [NoReply EXCEPT !.pc = "received", !.raw = Serialize(x), !.isJson = TRUE,
                              !.x = x]
    /\ UNCHANGED notJson

\* The serialization of an object with a comma put before its closing brace.
WithTrailingComma(x) ==
    LET s == Serialize(x) IN SubSeq(s, 1, Len(s) - 1) \o <<",", "}">>

\* The objects that have a member.
NoisyObjects == { x \in JsonValues : x.t = "obj" /\ x.m # <<>> }

\* The reply is an object serialized with a trailing comma, inside a fenced code
\* block with or without the language tag.
ReceiveNoisy(x, tagged) ==
    /\ dec.pc = "idle"
    /\ dec' = [NoReply EXCEPT !.pc = "received", !.noisy = TRUE, !.x = x,
                              !.raw = <<Fence>> \o (IF tagged THEN <<"json">> ELSE <<>>)
                                      \o <<Blank>> \o WithTrailingComma(x)
                                      \o <<Blank, Fence>>]
    /\ UNCHANGED notJson

\* The reply goes through DocumentTypeAnalyzer._extract_json_from_text.
ApplyExtractJson ==
    /\ dec.pc = "received"
    /\ dec.extracted = NotRun
    /\ dec' = [dec EXCEPT !.extracted = extract_json_from_text(dec.raw)]
    /\ UNCHANGED notJson

\* The reply goes through safe_parse_json.
ApplySafeParseJson ==
    /\ dec.pc = "received"
    /\ dec.parsed = NotRun
    /\ dec' = [dec EXCEPT !.parsed = safe_parse_json(dec.raw)]
    /\ UNCHANGED notJson

NextJson ==
    \/ \E raw \in RawTexts : ReceiveText(raw)
    \/ \E x \in JsonValues : ReceiveSerialized(x)
    \/ \E x \in NoisyObjects, tagged \in BOOLEAN : ReceiveNoisy(x, tagged)
    \/ ApplyExtractJson
    \/ ApplySafeParseJson

\* One model reply and its decoding.
SpecJson == InitReq /\ [][NextJson]_vars_

\* ------------------------------------------------------- the upload directory
notUpload == <<storeVars, dec, boot, dtypes, treq, dvt,
    oracle, ext, deletion, registry, ws>>

\* upload_document, lines 50-70: the bytes are written to UPLOAD_DIR/<filename>,
\* whatever is there, and the row is created with that filePath. A file holds the
\* id of the upload whose bytes it has.
UploadFile(u, name, org) ==
    /\ frows[u].state = "unused"
    /\ \A w \in UploadIds : w < u => frows[w].state # "unused"
    /\ files' = [files EXCEPT ![name] = u]
    /\ frows' = [frows EXCEPT ![u] = [state |-> "stored", orgId |-> org, filePath |-> name,
                                      read |-> 0]]
    /\ UNCHANGED <<notUpload, fvars>>

\* The background job, enqueued with the upload's file_path, extracts the text of
\* the file that is at that path when it runs.
JobReadsFile(u) ==
    /\ frows[u].state = "stored"
    /\ frows[u].read = 0
    /\ files[frows[u].filePath] # NoFile
    /\ frows' = [frows EXCEPT ![u].read = files[frows[u].filePath]]
    /\ UNCHANGED <<notUpload, files, fvars>>

\* The background job's bulk insert of the document's variables.
InsertVariables(u) ==
    /\ frows[u].state = "stored"
    /\ fvars[u] = 0
    /\ fvars' = [fvars EXCEPT ![u] = 1]
    /\ UNCHANGED <<notUpload, files, frows>>

\* os.remove(doc.filePath) when os.path.exists(doc.filePath)
OsRemove(fs, path) == [fs EXCEPT ![path] = NoFile]

\* delete_document, lines 224-235: the guard, then the file at filePath, the
\* variables and the row. A refused request changes nothing.
DeleteUploaded(u, org) ==
    /\ frows[u].state = "stored"
    /\ frows[u].orgId = org
    /\ files' = OsRemove(files, frows[u].filePath)
    /\ fvars' = [fvars EXCEPT ![u] = 0]
    /\ frows' = [frows EXCEPT ![u] = DeletedRow]
    /\ UNCHANGED notUpload

NextFiles ==
    \/ \E u \in UploadIds, name \in Filenames, org \in Orgs : UploadFile(u, name, org)
    \/ \E u \in UploadIds : JobReadsFile(u)
    \/ \E u \in UploadIds : InsertVariables(u)
    \/ \E u \in UploadIds, org \in Orgs : DeleteUploaded(u, org)

\* Uploads and deletions as the upload directory sees them.
SpecFiles == InitReq /\ [][NextFiles]_vars_

\* ------------------------------------------------------- bootstrap_template
notBoot == <<storeVars, uploadVars, dec, dtypes, treq, dvt,
    oracle, ext, deletion, registry, ws>>

\* A search result's text: pad whitespace characters around body other characters.
ExemplarTexts == [pad : {0, 2}, body : {0, MinExemplarLen - 1, MinExemplarLen}]
TextLen(t) == t.pad + t.body
\* len(text.strip())
StripLen(t) == t.body

\* fetch_public_examples: [] when the search fails, else the items whose text is
\* not empty, in the order of the reply.
fetch_public_examples(items, failed) ==
    IF failed THEN <<>> ELSE SelectSeq(items, LAMBDA t : TextLen(t) > 0)

\* Queries, as their words (query.lower().split()).
Queries == { <<>>, <<"a">>, <<"draft", "ip">>, <<"nda">>, <<"draft", "lease">> }

\* len(w) of a query word
WordLen(w) == IF w = "a" THEN 1 ELSE IF w = "ip" THEN 2 ELSE IF w = "nda" THEN 3 ELSE 5

\* _infer_doc_type: the first keyword group with a word in the query, else the
\* default type.
infer_doc_type(query) ==
    LET words == { query[i] : i \in 1..Len(query) }
    IN IF words \cap {"notice", "notification"} # {} THEN "legal_notice"
       ELSE IF words \cap {"contract", "agreement"} # {} THEN "contract"
       ELSE IF words \cap {"lease", "rent"} # {} THEN "lease_agreement"
       ELSE IF words \cap {"complaint", "petition"} # {} THEN "court_filing"
       ELSE "legal_document"

StopWords == {"a", "the", "in", "on", "for", "to", "of", "draft", "create"}
MaxTags == 5

\* _generate_tags: the words that are no stop words and longer than 2, at most 5.
generate_tags(query) ==
    LET tags == SelectSeq(query, LAMBDA w : w \notin StopWords /\ WordLen(w) > 2)
    IN SubSeq(tags, 1, IF Len(tags) < MaxTags THEN Len(tags) ELSE MaxTags)

\* The metadata the templatizer's markdown can hold: each field there or not.
TemplatizerMetadata == [title : {"", "NDA"}, file_description : {"", "An NDA"},
                        doc_type : {"", "nda"}, similarity_tags : {<<>>, <<"nda">>},
                        variables : {<<>>, <<"party">>}]

\* _aggressive_variable_extraction's reply: a list of variables, or an exception.
FallbackReplies == {<<>>, <<"amount">>}
FallbackRaises == <<"raises">>

\* _aggressive_variable_extraction(text, template_markdown, existing_data): a
\* non-empty list replaces the variables; an exception leaves the data as it was.
aggressive_variable_extraction(existing_data, reply) ==
    IF reply # FallbackRaises /\ reply # <<>>
    THEN [existing_data EXCEPT !.variables = reply]
    ELSE existing_data

\* Steps 5 and 6 of bootstrap_template: the fallback extraction when there are no
\* variables, then the dict returned with its defaults.
BootstrapData(query, template_data, reply) ==
    LET d == IF template_data.variables = <<>>
             THEN aggressive_variable_extraction(template_data, reply)
             ELSE template_data
    IN [title |-> IF d.title # "" THEN d.title ELSE "Template: exemplar",
        file_description |-> IF d.file_description # "" THEN d.file_description
                             ELSE "Sourced from web for: query",
        doc_type |-> IF d.doc_type # "" THEN d.doc_type ELSE infer_doc_type(query),
        similarity_tags |-> IF d.similarity_tags # <<>> THEN d.similarity_tags
                            ELSE generate_tags(query),
        variables |-> d.variables]

\* Steps 1 and 2 of bootstrap_template: search, then pick the exemplar.
BootstrapPick ==
    /\ boot.pc = "idle"
    /\ \E items \in SeqsUpTo(ExemplarTexts, MaxExamples), failed \in BOOLEAN,
          query \in Queries :
         LET examples == fetch_public_examples(items, failed)
             none == [NoBootstrap EXCEPT !.pc = "returned", !.examples = examples,
                                         !.query = query]
             pick(i) == [NoBootstrap EXCEPT !.pc = "templatize", !.examples = examples,
                                            !.picked = i, !.query = query]
         IN boot' = IF examples = <<>> THEN none
                    ELSE IF TextLen(examples[1]) = 0
                            \/ StripLen(examples[1]) < MinExemplarLen
                         THEN IF Len(examples) > 1 THEN pick(2) ELSE none
                         ELSE pick(1)
    /\ UNCHANGED notBoot

\* What templatizer_agent.process does on the exemplar's text.
TemplatizerOutcomes == {"raises", "empty", "markdown"}

\* Steps 3 to 6: the templatizer is called on the picked text; an exception or an
\* empty reply gives None, a reply gives the template data.
BootstrapTemplatize ==
    /\ boot.pc = "templatize"
    /\ \E out \in TemplatizerOutcomes, meta \in TemplatizerMetadata,
          reply \in FallbackReplies \cup {FallbackRaises} :
         boot' = IF out = "markdown"
                 THEN [boot EXCEPT !.pc = "returned", !.called = TRUE,
                                   !.result = "template", !.meta = meta,
                                   !.fallback = IF meta.variables = <<>> THEN reply
                                                ELSE <<>>,
                                   !.data = BootstrapData(boot.query, meta, reply)]
                 ELSE [boot EXCEPT !.pc = "returned", !.called = TRUE,
                                   !.result = "none"]
    /\ UNCHANGED notBoot

\* find_templates saves the bootstrapped template: every field of the row is read
\* from the metadata of the markdown, parsed anew; of the returned dict only the
\* title is used, as a default.
FindTemplatesSave ==
    /\ boot.pc = "returned"
    /\ boot.result = "template"
    /\ boot' = [boot EXCEPT
                  !.pc = "saved",
                  !.saved = [title |-> IF boot.meta.title # "" THEN boot.meta.title
                                       ELSE boot.data.title,
                             file_description |-> boot.meta.file_description,
                             doc_type |-> boot.meta.doc_type,
                             similarity_tags |-> boot.meta.similarity_tags,
                             variables |-> boot.meta.variables]]
    /\ UNCHANGED notBoot

\* The next call of bootstrap_template.
BootstrapAgain ==
    /\ boot.pc \in {"returned", "saved"}
    /\ boot' = NoBootstrap
    /\ UNCHANGED notBoot

NextBoot ==
    \/ BootstrapPick
    \/ BootstrapTemplatize
    \/ FindTemplatesSave
    \/ BootstrapAgain

SpecBoot == InitReq /\ [][NextBoot]_vars_

\* ------------------------------------------- get_or_create_document_type
notTypes == <<storeVars, uploadVars, dec, boot, treq, dvt,
    oracle, ext, deletion, registry, ws>>

TypeNames == {"Unknown", "Generic Document", "Invoice", "Lease Agreement"}
Confidences == {0, MinConfidence - 1, MinConfidence, 90}

\* Analysis results: what analyze_document returns, and any dict a caller passes.
AnalysisResults == [document_type : TypeNames \cup {Missing}, confidence : Confidences,
                    hasConfidence : {TRUE}]
                   \cup [document_type : TypeNames \cup {Missing}, confidence : {0},
                         hasConfidence : {FALSE}]

\* analysis_result.get("document_type", "Unknown")
DocTypeName(a) == IF a.document_type = Missing THEN "Unknown" ELSE a.document_type
\* analysis_result.get("confidence", 0)
Confidence(a) == IF a.hasConfidence THEN a.confidence ELSE 0

\* The id of the DocumentType row of a name (names are looked up before a create).
TypeId(name) == name

get_or_create_document_type ==
    \E a \in AnalysisResults, raises \in BOOLEAN :
       LET doc_type_name == DocTypeName(a)
       IN /\ IF doc_type_name = "Unknown" \/ Confidence(a) < MinConfidence
             THEN dtypes' = [dtypes EXCEPT !.analysis = a, !.returned = "none"]
             ELSE IF raises
             THEN dtypes' = [dtypes EXCEPT !.analysis = a, !.returned = "none"]
             ELSE IF doc_type_name \in dtypes.names
             THEN dtypes' = [dtypes EXCEPT !.analysis = a,
                                           !.returned = TypeId(doc_type_name)]
             ELSE dtypes' = [names |-> dtypes.names \cup {doc_type_name},
                             analysis |-> a, returned |-> TypeId(doc_type_name)]
          /\ UNCHANGED notTypes

NextTypes == get_or_create_document_type

SpecTypes == InitReq /\ [][NextTypes]_vars_

\* ------------------------------------------------------- template markdown
notTemplateMd == <<pipelineVars, docs, vars, lastReq, qgen, uploadVars, dec, boot, dtypes,
                   dvt,
    oracle, ext, deletion, registry, ws>>

\* A markdown is a sequence of tokens: the delimiter, whitespace, a YAML key line,
\* a line of plain text, and a line no YAML parser accepts.
Delim == "---"
YamlKeyLine == "title: T"
PlainLine == "text"
BadYamlLine == ": ["
MdTokens == {Delim, Blank, YamlKeyLine, PlainLine, BadYamlLine}
Markdowns == SeqsUpTo(MdTokens, MaxMdLen)

\* str.split("---", maxsplit); a negative maxsplit splits at every delimiter.
RECURSIVE Split(_, _)
Split(s, maxsplit) ==
    LET at == { i \in 1..Len(s) : s[i] = Delim }
    IN IF at = {} \/ maxsplit = 0 THEN <<s>>
       ELSE LET i == MinOf(at)
            IN <<SubSeq(s, 1, i - 1)>> \o Split(SubSeq(s, i + 1, Len(s)), maxsplit - 1)

\* "---".join(parts)
RECURSIVE Join(_)
Join(parts) ==
    IF parts = <<>> THEN <<>>
    ELSE IF Len(parts) = 1 THEN parts[1]
    ELSE parts[1] \o <<Delim>> \o Join(Tail(parts))

\* s.startswith("---")
StartsWithDelim(s) == s # <<>> /\ s[1] = Delim

\* yaml.safe_load of a front matter: None for an empty document, a dict for key
\* lines, a str for plain text, YAMLError for anything else.
safe_load(s) ==
    LET lines == { s[i] : i \in 1..Len(s) } \ {Blank}
    IN IF BadYamlLine \in lines THEN [kind |-> "YAMLError", keys |-> {}]
       ELSE IF lines = {} THEN [kind |-> "None", keys |-> {}]
       ELSE IF lines = {YamlKeyLine} THEN [kind |-> "dict", keys |-> {"title"}]
       ELSE IF lines = {PlainLine} THEN [kind |-> "str", keys |-> {}]
       ELSE [kind |-> "YAMLError", keys |-> {}]

\* WebBootstrapAgent._parse_template_markdown: every failure, the AttributeError
\* of metadata.get on a str included, gives the whole markdown as the body.
parse_template_markdown(markdown) ==
    LET whole == TemplateData({}, markdown)
        parts == Split(markdown, 2)
    IN IF ~StartsWithDelim(Strip(markdown)) THEN whole
       ELSE IF Len(parts) < 3 THEN whole
       ELSE LET metadata == safe_load(Strip(parts[2]))
            IN IF metadata.kind \in {"YAMLError", "str"} THEN whole
               ELSE TemplateData(metadata.keys, Strip(parts[3]))

\* find_templates on the markdown of a bootstrapped template.
find_templates(template_markdown) ==
    IF template_markdown = <<>> THEN StatusReply("not_found")
    ELSE LET parts == Split(template_markdown, 2)
             fm == StartsWithDelim(Strip(template_markdown))
         IN IF fm /\ Len(parts) < 3 THEN StatusReply("error")
            ELSE LET yaml_part == IF fm THEN Strip(parts[2]) ELSE <<>>
                     body_md == IF fm THEN Strip(parts[3]) ELSE template_markdown
                     loaded == IF yaml_part # <<>> THEN safe_load(yaml_part)
                               ELSE [kind |-> "dict", keys |-> {}]
                     meta == IF loaded.kind = "YAMLError"
                             THEN [kind |-> "dict", keys |-> {}] ELSE loaded
                 IN IF meta.kind # "dict" THEN HttpError(500)
                    ELSE TemplateData(meta.keys, body_md)

\* save_template: both HTTPException(400) are raised inside the try, whose
\* `except Exception` answers 500.
SaveTemplateMarkdown(template_markdown) ==
    LET parts == Split(template_markdown, -1)
    IN IF Len(parts) < 3 THEN HttpError(500)
       ELSE LET parsed_yaml == safe_load(parts[2])
                body_md == Strip(Join(SubSeq(parts, 3, Len(parts))))
            IN IF parsed_yaml.kind # "dict" THEN HttpError(500)
               ELSE TemplateData(parsed_yaml.keys, body_md)

\* db.template.create for the org, when the operation got as far as that.
CreateTemplate(out, org) ==
    IF out.outcome # "parsed" THEN UNCHANGED templates
    ELSE \E t \in TemplateIds : /\ templates[t] = NoTemplate
                                /\ templates' = [templates EXCEPT ![t] = org]

ParseBootstrapped ==
    /\ treq.op = "none"
    /\ \E md \in Markdowns \ {<<>>} :
         treq' = [op |-> "parse_template_markdown", markdown |-> md, found |-> TRUE,
                  out |-> parse_template_markdown(md)]
    /\ UNCHANGED <<notTemplateMd, templates>>

FindTemplatesBootstrap ==
    \E md \in Markdowns \ {<<>>}, org \in Orgs :
       /\ treq.op = "none"
       /\ treq' = [op |-> "find_templates", markdown |-> md, found |-> TRUE,
                   out |-> find_templates(md)]
       /\ CreateTemplate(find_templates(md), org)
       /\ UNCHANGED notTemplateMd

SaveTemplateRequest ==
    \E md \in Markdowns, org \in Orgs :
       /\ treq.op = "none"
       /\ treq' = [op |-> "save_template", markdown |-> md, found |-> TRUE,
                   out |-> SaveTemplateMarkdown(md)]
       /\ CreateTemplate(SaveTemplateMarkdown(md), org)
       /\ UNCHANGED notTemplateMd

TemplateFetch ==
    /\ treq.op = "none"
    /\ \E t \in RequestTemplateIds, org \in Orgs :
         treq' = [op |-> "get_template_by_id", markdown |-> <<>>,
                  found |-> FindTemplate(t, org),
                  out |-> HttpError(get_template_by_id(t, org).code)]
    /\ UNCHANGED <<notTemplateMd, templates>>

TemplateFill ==
    /\ treq.op = "none"
    /\ \E t \in RequestTemplateIds, org \in Orgs :
         treq' = [op |-> "fill_template", markdown |-> <<>>,
                  found |-> FindTemplate(t, org),
                  out |-> HttpError(fill_template(t, org).code)]
    /\ UNCHANGED <<notTemplateMd, templates>>

\* The operation has answered; the next one can be called.
TemplateCallEnds ==
    /\ treq.op # "none"
    /\ treq' = NoTemplateCall
    /\ UNCHANGED <<notTemplateMd, templates>>

NextTemplateMd ==
    \/ TemplateCallEnds
    \/ ParseBootstrapped
    \/ FindTemplatesBootstrap
    \/ SaveTemplateRequest
    \/ TemplateFetch
    \/ TemplateFill

SpecTemplateMd == InitReq /\ [][NextTemplateMd]_vars_

\* ------------------------------------------------ the DocumentVariable table
notTable == <<storeVars, uploadVars, dec, boot, dtypes, treq,
    oracle, ext, deletion, registry, ws>>

\* Two documents, one of each org.
TableDocs == {"doc-A", "doc-B"}
TableDocOrg(d) == IF d = "doc-A" THEN "orgA" ELSE "orgB"
VariableNames == {"total", "date"}

\* Elements that an extraction hands to a bulk insert.
BulkInputs == SeqsUpTo([name : VariableNames, value : {"extracted"}], MaxBulk)

\* An insert that skips the elements whose name the document has or that an
\* earlier element of the list has.
RECURSIVE CreateManyDeduped(_, _, _)
CreateManyDeduped(rows, document_id, variables) ==
    IF variables = <<>> THEN rows
    ELSE LET v == Head(variables)
             has == \E i \in 1..Len(rows) : /\ rows[i].documentId = document_id
                                            /\ rows[i].name = v.name
         IN CreateManyDeduped(IF has THEN rows
                              ELSE Append(rows, [documentId |-> document_id,
                                                 name |-> v.name, value |-> v.value]),
                              document_id, Tail(variables))

\* db.documentvariable.create_many(data=[{...} for v in variables])
CreateMany(rows, document_id, variables) ==
    rows \o [i \in 1..Len(variables) |->
               [documentId |-> document_id, name |-> variables[i].name,
                value |-> variables[i].value]]

\* db.documentvariable.update_many(where={"documentId": doc_id, "name": key},
\*                                 data={"value": value})
UpdateManyWhere(rows, doc_id, key, value) ==
    [i \in 1..Len(rows) |->
       IF rows[i].documentId = doc_id /\ rows[i].name = key
       THEN [rows[i] EXCEPT !.value = value] ELSE rows[i]]

\* for key, value in fields.items(): update_many(...)
RECURSIVE UpdateEachField(_, _, _, _)
UpdateEachField(rows, doc_id, keys, value) ==
    IF keys = {} THEN rows
    ELSE LET key == CHOOSE k \in keys : TRUE
         IN UpdateEachField(UpdateManyWhere(rows, doc_id, key, value), doc_id,
                            keys \ {key}, value)

\* DocumentVariableService.bulk_create_variables(document_id, variables)
BulkCreateVariables ==
    \E d \in TableDocs, variables \in BulkInputs :
       /\ Len(dvt.rows) + Len(variables) <= MaxTableRows
       /\ dvt' = [NoVariableRows EXCEPT
                    !.rows = IF variables = <<>> THEN dvt.rows
                             ELSE CreateMany(dvt.rows, d, variables),
                    !.op = "bulk_create_variables", !.documentId = d,
                    !.variables = variables, !.code = 200]
       /\ UNCHANGED notTable

\* DocumentService.update_document_fields(doc_id, fields, org_id) on the table
UpdateDocumentFields ==
    \E d \in TableDocs, keys \in SUBSET VariableNames, v \in EditValues, org \in Orgs :
       /\ dvt' = [NoVariableRows EXCEPT
                    !.rows = IF TableDocOrg(d) # org THEN dvt.rows
                             ELSE UpdateEachField(dvt.rows, d, keys, v),
                    !.op = "update_document_fields", !.documentId = d,
                    !.fields = keys, !.value = v,
                    !.code = IF TableDocOrg(d) # org THEN 403 ELSE 200]
       /\ UNCHANGED notTable

NextTable ==
    \/ BulkCreateVariables
    \/ UpdateDocumentFields

SpecTable == InitReq /\ [][NextTable]_vars_

\* ------------------------------------------------------- the oracle wrapper
notOracle == <<storeVars, uploadVars, dec, boot, dtypes, treq, dvt, ext, deletion, registry, ws>>

Roles == {"system", "user", "assistant"}
Contents == {<<"a">>, <<"b">>}
Messages == SeqsUpTo([role : Roles, content : Contents], MaxMessages)

\* The loop of BaseAgent._make_api_call over messages[i..], with the system
\* contents gathered so far.
RECURSIVE ChatMessages(_, _, _)
ChatMessages(messages, i, system_prompt) ==
    IF i > Len(messages) THEN <<>>
    ELSE LET msg == messages[i]
         IN IF msg.role = "system"
            THEN ChatMessages(messages, i + 1, system_prompt \o msg.content \o <<"\n">>)
            ELSE IF msg.role = "user"
            THEN <<[role |-> "user", parts |-> system_prompt \o msg.content]>>
                 \o ChatMessages(messages, i + 1, <<>>)
            ELSE IF msg.role = "assistant"
            THEN <<[role |-> "model", parts |-> msg.content]>>
                 \o ChatMessages(messages, i + 1, system_prompt)
            ELSE ChatMessages(messages, i + 1, system_prompt)

\* BaseAgent._make_api_call(messages): the turns handed to generate_content_async.
MakeApiCall ==
    /\ oracle.pc = "idle"
    /\ \E messages \in Messages :
         oracle' = [pc |-> "sent", messages |-> messages,
                    chat_messages |-> ChatMessages(messages, 1, <<>>)]
    /\ UNCHANGED notOracle

\* SimpleAgent.process(input_data, context): the system prompt, the context as a
\* second system message when there is one, then the input as the user message.
SimpleAgentProcess ==
    /\ oracle.pc = "idle"
    /\ \E input_data \in Contents, context \in Contents \cup {<<>>} :
         LET messages ==
               <<[role |-> "system", content |-> <<"prompt">>]>>
               \o (IF context # <<>>
                   THEN <<[role |-> "system", content |-> <<"Context: ">> \o context]>>
                   ELSE <<>>)
               \o <<[role |-> "user", content |-> input_data]>>
         IN oracle' = [pc |-> "sent", messages |-> messages,
                       chat_messages |-> ChatMessages(messages, 1, <<>>)]
    /\ UNCHANGED notOracle

\* The provider has replied (or failed); the wrapper returns.
ApiCallReturns ==
    /\ oracle.pc = "sent"
    /\ oracle' = NoApiCall
    /\ UNCHANGED notOracle

NextOracle ==
    \/ MakeApiCall
    \/ SimpleAgentProcess
    \/ ApiCallReturns

SpecOracle == InitReq /\ [][NextOracle]_vars_

\* ------------------------------------------------------- text extraction
notExtraction == <<storeVars, uploadVars, dec, boot, dtypes, treq, dvt, oracle, deletion, registry, ws>>

\* The two entry points: the task job calls safe_extract_text, the service job and
\* the template upload call extract_text_from_file.
Extractors == {"safe_extract_text", "extract_text_from_file"}
Extensions == {".pdf", ".txt"}

\* What a text layer or a text file holds, and what OCR reads on one page.
LayerTexts == { <<>>, <<" ">>, <<"x">>, <<" ", "x">> }
PageTexts == { <<>>, <<" ">>, <<"o">> }
Raises == <<"raises">>

\* "".join(pytesseract.image_to_string(page) for page in pages)
RECURSIVE JoinPages(_)
JoinPages(pages) == IF pages = <<>> THEN <<>> ELSE Head(pages) \o JoinPages(Tail(pages))

\* An OCR pass over the file: the text read on each page, or an exception.
OcrOutcomes == SeqsUpTo(PageTexts, MaxPages) \cup {Raises}

\* Where a .pdf extraction goes once extract_text_from_file has returned text:
\* safe_extract_text tests the text again, extract_text_from_file's own callers
\* take it.
AfterInner(e, text) ==
    IF e.entry = "safe_extract_text" /\ Strip(text) = <<>>
    THEN [e EXCEPT !.pc = "outer_ocr", !.text = text]
    ELSE [e EXCEPT !.pc = "returned", !.text = text, !.result = text]

\* The extraction starts: a .txt file is read; for a .pdf extract_text_with_pdfminer
\* gives the text layer, "" when it raises.
ExtractDirect ==
    /\ ext.pc = "idle"
    /\ \E entry \in Extractors, extension \in Extensions, layer \in LayerTexts \cup {Raises} :
         LET text == IF layer = Raises THEN <<>> ELSE layer
             e == [NoExtraction EXCEPT !.entry = entry, !.extension = extension,
                                       !.direct = text]
         IN ext' = IF extension = ".txt"
                   THEN [e EXCEPT !.pc = "returned", !.text = text, !.result = text]
                   ELSE IF Strip(text) = <<>>
                   THEN [e EXCEPT !.pc = "inner_ocr", !.text = text]
                   ELSE AfterInner(e, text)
    /\ UNCHANGED notExtraction

\* extract_text_from_file falls back to OCR; an exception makes it return "".
InnerOcr ==
    /\ ext.pc = "inner_ocr"
    /\ \E out \in OcrOutcomes :
         ext' = AfterInner([ext EXCEPT !.ocrRuns = ext.ocrRuns + 1,
                                       !.passes = Append(ext.passes, out)],
                           IF out = Raises THEN <<>> ELSE JoinPages(out))
    /\ UNCHANGED notExtraction

\* safe_extract_text falls back to OCR on the text it got; an exception makes it
\* return "".
OuterOcr ==
    /\ ext.pc = "outer_ocr"
    /\ \E out \in OcrOutcomes :
         LET text == IF out = Raises THEN <<>> ELSE JoinPages(out)
         IN ext' = [ext EXCEPT !.pc = "returned", !.ocrRuns = ext.ocrRuns + 1,
                               !.passes = Append(ext.passes, out),
                               !.text = text, !.result = text]
    /\ UNCHANGED notExtraction

\* The next extraction.
ExtractAgain ==
    /\ ext.pc = "returned"
    /\ ext' = NoExtraction
    /\ UNCHANGED notExtraction

NextExtraction ==
    \/ ExtractDirect
    \/ InnerOcr
    \/ OuterOcr
    \/ ExtractAgain

SpecExtraction == InitReq /\ [][NextExtraction]_vars_

\* ------------------------------------------- delete_document, step by step
notDeletion == <<pipelineVars, templates, lastReq, qgen, uploadVars, dec, boot, dtypes, treq,
                 dvt, oracle, ext, registry, ws>>

\* Where the job of the document stood when the delete looked the document up.
JobRunning(d) == job[d].pc \notin {"none", "done"}

\* find_unique and the guard (document_service.py:225-227), then os.remove of the
\* file (228-229): one step, there is no await between them.
DeleteLookup(d, org) ==
    /\ deletion[d].pc \in {"none", "refused"}
    /\ \E raises \in BOOLEAN :
         deletion' = [deletion EXCEPT ![d] =
                        IF raises THEN [NoDeletion EXCEPT !.pc = "raised"]
                        ELSE IF ~Authorized(d, org) THEN [NoDeletion EXCEPT !.pc = "refused"]
                        ELSE [NoDeletion EXCEPT !.pc = "delete_many",
                                                !.during = JobRunning(d)]]
    /\ UNCHANGED <<notDeletion, docs, vars>>

\* db.documentvariable.delete_many(where={"documentId": doc_id}), line 231
DeleteVariables(d) ==
    /\ deletion[d].pc = "delete_many"
    /\ \E raises \in BOOLEAN :
         IF raises
         THEN /\ deletion' = [deletion EXCEPT ![d].pc = "raised"]
              /\ UNCHANGED vars
         ELSE /\ deletion' = [deletion EXCEPT ![d].pc = "delete"]
              /\ vars' = [vars EXCEPT ![d] = <<>>]
    /\ UNCHANGED <<notDeletion, docs>>

\* db.document.delete(where={"id": doc_id}), line 232, and the reply
DeleteDocument(d) ==
    /\ deletion[d].pc = "delete"
    /\ \E raises \in BOOLEAN :
         IF raises
         THEN /\ deletion' = [deletion EXCEPT ![d].pc = "raised"]
              /\ UNCHANGED <<docs, vars>>
         ELSE /\ deletion' = [deletion EXCEPT ![d].pc = "done",
                                              ![d].cascaded = vars[d] # <<>>]
              /\ docs' = [docs EXCEPT ![d] = NoDoc]
              /\ vars' = CascadeDelete(vars, d)
    /\ UNCHANGED notDeletion

NextDeletion ==
    \/ \E d \in DocIds, org \in Orgs : upload_document(d, org)
    \/ \E d \in DocIds : SvcJobStep(d)
    \/ \E d \in DocIds, org \in Orgs : DeleteLookup(d, org)
    \/ \E d \in DocIds : DeleteVariables(d)
    \/ \E d \in DocIds : DeleteDocument(d)

\* A document, its job and a delete of it, each await of the delete a step.
SpecDeletion == InitReq /\ [][NextDeletion]_vars_

\* ------------------------------------------- the DocumentType registry, step by step
notRegistry == <<storeVars, uploadVars, dec, boot, dtypes, treq, dvt, oracle, ext, deletion, ws>>

CallerIds == 1..MaxCallers
RegistryNames == {"Invoice", "Lease Agreement"}
RegistryCalls == {"get_or_create_document_type", "create_document_type"}

\* find_first(where={"name": name}): the id of the first row of that name, 0 for None
FindFirst(rows, name) ==
    IF \E i \in 1..Len(rows) : rows[i] = name
    THEN CHOOSE i \in 1..Len(rows) : rows[i] = name /\ \A j \in 1..(i - 1) : rows[j] # name
    ELSE 0

\* A call begins; get_or_create_document_type with a name and a confidence that pass
\* its first test (document_type_analyzer.py:197-200). The store answers every call
\* of this section.
TypeCallBegins(c, kind, name) ==
    /\ registry.calls[c].pc = "none"
    /\ registry' = [registry EXCEPT !.calls[c] =
                      [NoTypeCall EXCEPT !.pc = "find", !.kind = kind, !.name = name]]
    /\ UNCHANGED notRegistry

\* existing = await find_first(...): get_or_create_document_type returns existing.id
\* (lines 202-204), create_document_type raises the 400 "Document type already
\* exists" (document_type_service.py:60-62); with no row of the name the create is next.
TypeFind(c) ==
    /\ registry.calls[c].pc = "find"
    /\ LET call == registry.calls[c]
           existing == FindFirst(registry.rows, call.name)
       IN registry' = [registry EXCEPT !.calls[c] =
                         IF existing = 0 THEN [call EXCEPT !.pc = "create"]
                         ELSE IF call.kind = "create_document_type"
                         THEN [call EXCEPT !.pc = "done", !.tag = "exists"]
                         ELSE [call EXCEPT !.pc = "done", !.tag = "id", !.id = existing]]
    /\ UNCHANGED notRegistry

\* await create(data={"name": name, ...}) and the return of the new row. Whether the
\* table has a unique index on name is the schema's: with one, a create of a name
\* that is there raises, which get_or_create_document_type answers with None (lines
\* 220-222) and create_document_type passes on; without one the row is added.
TypeCreate(c) ==
    /\ registry.calls[c].pc = "create"
    /\ Len(registry.rows) < MaxTypeRows
    /\ LET call == registry.calls[c]
       IN \E unique \in BOOLEAN :
            IF unique /\ FindFirst(registry.rows, call.name) # 0
            THEN registry' = [registry EXCEPT !.calls[c] =
                                [call EXCEPT !.pc = "done",
                                             !.tag = IF call.kind = "create_document_type"
                                                     THEN "error" ELSE "none"]]
            ELSE registry' = [rows |-> Append(registry.rows, call.name),
                              calls |-> [registry.calls EXCEPT ![c] =
                                           [call EXCEPT !.pc = "done", !.tag = "id",
                                                        !.id = Len(registry.rows) + 1]]]
    /\ UNCHANGED notRegistry

\* The caller has its answer and may call again; the answers of the calls that are
\* over stay until then.
TypeCallEnds(c) ==
    /\ registry.calls[c].pc = "done"
    /\ \A e \in CallerIds : registry.calls[e].pc \in {"none", "done"}
    /\ registry' = [registry EXCEPT !.calls[c] = NoTypeCall]
    /\ UNCHANGED notRegistry

NextRegistry ==
    \/ \E c \in CallerIds, kind \in RegistryCalls, name \in RegistryNames :
          TypeCallBegins(c, kind, name)
    \/ \E c \in CallerIds : TypeFind(c)
    \/ \E c \in CallerIds : TypeCreate(c)
    \/ \E c \in CallerIds : TypeCallEnds(c)

\* Concurrent callers of the two operations that create DocumentType rows.
SpecRegistry == InitReq /\ [][NextRegistry]_vars_

\* ------------------------------------------------------- ConnectionManager
notConnections == <<storeVars, uploadVars, dec, boot, dtypes, treq, dvt, oracle, ext, deletion,
                    registry>>

SocketIds == 1..MaxSockets

\* list.remove(x): the list without its first x
ListRemove(list, x) ==
    LET first == CHOOSE i \in 1..Len(list) : list[i] = x /\ \A j \in 1..(i - 1) : list[j] # x
    IN [i \in 1..(Len(list) - 1) |-> IF i < first THEN list[i] ELSE list[i + 1]]

\* chat_ws entry and connect (websocket_manager.py:8-12): accept, then the append to
\* the org's list, which is made when the org has none.
Connect(s, org) ==
    /\ ws.sock[s].state = "new"
    /\ LET ac == ws.active_connections
       IN ws' = [ws EXCEPT
                   !.active_connections =
                       [o \in DOMAIN ac \cup {org} |->
                           IF o = org
                           THEN Append(IF org \in DOMAIN ac THEN ac[org] ELSE <<>>, s)
                           ELSE ac[o]],
                   !.sock[s] = [state |-> "open", org |-> org]]
    /\ UNCHANGED notConnections

\* The client goes away; chat_ws learns of it when its receive_text raises.
SocketCloses(s) ==
    /\ ws.sock[s].state = "open"
    /\ ws' = [ws EXCEPT !.sock[s].state = "closed",
                        !.bc.stayed = ws.bc.stayed \ {s}]
    /\ UNCHANGED notConnections

\* chat_ws's except and disconnect (chat_ws.py:14-15, websocket_manager.py:14-17):
\* remove from the org's list, and del the key when the list is empty. A broadcast
\* that iterates that list keeps the list object, which is then empty for good.
Disconnect(s) ==
    /\ ws.sock[s].state = "closed"
    /\ LET ac == ws.active_connections
           org == ws.sock[s].org
           list == ListRemove(ac[org], s)
       IN ws' = [ws EXCEPT
                   !.active_connections =
                       IF list = <<>>
                       THEN [o \in DOMAIN ac \ {org} |-> ac[o]]
                       ELSE [ac EXCEPT ![org] = list],
                   !.sock[s].state = "gone",
                   !.bc.detached = ws.bc.detached
                                     \/ (ws.bc.pc = "loop" /\ ws.bc.org = org /\ list = <<>>)]
    /\ UNCHANGED notConnections

\* broadcast (lines 19-21) up to its loop: the iterator is over the org's list
\* itself, or over a new empty list when the org has no key.
BroadcastBegins(org) ==
    /\ ws.bc.pc = "idle"
    /\ LET ac == ws.active_connections
       IN ws' = [ws EXCEPT !.bc =
                   [NoBroadcast EXCEPT
                      !.pc = "loop", !.org = org,
                      !.detached = org \notin DOMAIN ac,
                      !.stayed = IF org \in DOMAIN ac
                                 THEN {ac[org][i] : i \in {j \in 1..Len(ac[org]) :
                                                             ws.sock[ac[org][j]].state = "open"}}
                                 ELSE {}]]
    /\ UNCHANGED notConnections

\* One turn of the loop: the list iterator takes the element at its index of the
\* list as it is now, or ends; await ws.send_json(message) to a socket whose client
\* has gone raises or is dropped, as the server has it.
BroadcastSend ==
    /\ ws.bc.pc = "loop"
    /\ LET bc == ws.bc
           list == IF bc.detached THEN <<>> ELSE ws.active_connections[bc.org]
       IN IF bc.i >= Len(list)
          THEN ws' = [ws EXCEPT !.bc.pc = "done"]
          ELSE \E raises \in BOOLEAN :
                 IF raises /\ ws.sock[list[bc.i + 1]].state = "closed"
                 THEN ws' = [ws EXCEPT !.bc.pc = "raised"]
                 ELSE ws' = [ws EXCEPT !.bc.i = bc.i + 1,
                                       !.bc.sent = Append(bc.sent, list[bc.i + 1])]
    /\ UNCHANGED notConnections

\* broadcast is over and another may begin.
BroadcastEnds ==
    /\ ws.bc.pc \in {"done", "raised"}
    /\ ws' = [ws EXCEPT !.bc = NoBroadcast]
    /\ UNCHANGED notConnections

NextConnections ==
    \/ \E s \in SocketIds, org \in Orgs : Connect(s, org)
    \/ \E s \in SocketIds : SocketCloses(s)
    \/ \E s \in SocketIds : Disconnect(s)
    \/ \E org \in Orgs : BroadcastBegins(org)
    \/ BroadcastSend
    \/ BroadcastEnds

\* The sockets of /chat/ws and the broadcasts of the chat service.
SpecConnections == InitReq /\ [][NextConnections]_vars_

\* ---------------------------------------------------------------- claims
LegalStatusSteps ==
    { <<"absent", "uploaded">>, <<"uploaded", "processing">>,
      <<"processing", "completed">>, <<"processing", "failed">> }

\* C1: the only status changes of a document are uploaded->processing,
\* processing->completed and processing->failed (after its creation as uploaded);
\* in particular a completed or failed document keeps its status.
C1_OnlyLegalStatusSteps ==
    [][\A d \in DocIds :
         (docs'[d].status # docs[d].status /\ docs'[d].status # "absent")
            => <<docs[d].status, docs'[d].status>> \in LegalStatusSteps]_vars_

\* C2: a bulk insert of variables that raises is caught (the job does not enter its
\* failure handler because of it) and never turns a completed document failed.
C2_InsertFailureIsCaught ==
    [][\A d \in DocIds :
         /\ (~job[d].varsRaised /\ job'[d].varsRaised) => job'[d].pc # "handler"
         /\ (job[d].varsRaised /\ docs[d].status = "completed")
               => docs'[d].status \in {"completed", "absent"}]_vars_

\* C3: uploaded or processing documents have neither fullText nor insights,
\* completed documents have both, failed documents have no insights.
C3_ContentMatchesStatus ==
    \A d \in DocIds :
       /\ docs[d].status \in {"uploaded", "processing"}
             => docs[d].fullText = NullText /\ docs[d].insights = NullInsights
       /\ docs[d].status = "completed"
             => docs[d].fullText # NullText /\ docs[d].insights # NullInsights
       /\ docs[d].status = "failed" => docs[d].insights = NullInsights

\* C4: a job that has ended has left its document completed or failed, and no
\* exception has left the job.
C4_EndedJobIsTerminal ==
    \A d \in DocIds :
       job[d].pc = "done"
          => /\ ~escaped[d]
             /\ Exists(d) => docs[d].status \in {"completed", "failed"}

\* Positions of a job past the near-empty test, on its way to the oracle calls, the
\* variable insert and the completed update.
PastExtraction ==
    {"classify", "insights", "save_vars", "persist", "analyze", "fail_analysis",
     "svc_persist", "svc_vars"}

\* C5: a text whose stripped length is below 20 stops the job: it reaches no oracle
\* call, inserts no variables, and no such text is ever written as fullText.
C5_NearEmptyTextHalts ==
    \A d \in DocIds :
       /\ (job[d].pc \in PastExtraction /\ job[d].pc # "fail_analysis")
             => Len(Strip(job[d].text)) >= MinTextLen
       /\ docs[d].fullText # NullText => Len(Strip(docs[d].fullText.text)) >= MinTextLen

\* C6: when exactly one of summarization and entity extraction raised, the
\* completed update persists the placeholder for that branch and the other
\* branch's own result.
C6_OnlyFailedBranchDegraded ==
    [][\A d \in DocIds :
         (job[d].pc = "persist" /\ docs[d].status # "completed"
            /\ docs'[d].status = "completed")
         => /\ (job[d].sumRaised /\ ~job[d].entRaised)
                  => /\ docs'[d].insights.summary = FailedSummary
                     /\ docs'[d].insights.entities = SafeParseJson(job[d].entOut)
            /\ (job[d].entRaised /\ ~job[d].sumRaised)
                  => /\ docs'[d].insights.summary \in SummaryOutputs
                     /\ docs'[d].insights.entities = Dict(<<>>)]_vars_

\* C7: a classifier call that raises does not abort the job: the job goes on to
\* summarization and entity extraction with document type "unknown", and the
\* completed update then stores documentType "unknown".
C7_ClassifierFailureNonFatal ==
    [][\A d \in DocIds :
         /\ (job[d].pc = "classify" /\ job'[d].pc # "classify")
               => /\ job'[d].pc = "insights"
                  /\ job'[d].clsRaised => job'[d].doc_type = "unknown"
         /\ (job[d].pc = "insights" /\ job[d].clsRaised /\ job'[d].pc # "insights")
               => job'[d].pc = "save_vars" /\ job'[d].doc_type = "unknown"
         /\ (job[d].pc = "persist" /\ job[d].clsRaised /\ docs'[d].status = "completed")
               => /\ docs'[d].documentType = "unknown"
                  /\ docs'[d].insights.document_type = "unknown"]_vars_

\* C7's case: a document completed with type "unknown".
C7_Witness ==
    \E d \in DocIds :
       /\ docs[d].status = "completed"
       /\ docs[d].documentType = "unknown"
       /\ docs[d].insights.kind = "structured"
       /\ docs[d].insights.summary \in SummaryOutputs

\* C8: no request made under one org returns, changes or deletes a record owned
\* by another org.
C8_RequestsStayInOrg == ~lastReq.leak

ScopedDocumentOps == {"status", "insights", "fields", "file", "query", "delete"}

DocumentAnswer(op, d, org) ==
    CASE op = "status" -> get_processing_status(d, org)
      [] op = "insights" -> get_document_insights(d, org)
      [] op = "fields" -> get_document_fields(d, org)
      [] op = "file" -> get_document_file_path(d, org)
      [] op = "query" -> query_document(d, org)
      [] op = "delete" -> delete_document(d, org)

ScopedTemplateOps == {"fetch", "fill"}

TemplateAnswer(op, t, org) ==
    CASE op = "fetch" -> get_template_by_id(t, org)
      [] op = "fill" -> fill_template(t, org)

\* Two answers with the same status code and body, neither having changed the store.
SameAnswerStoreKept(a, b) ==
    /\ a.code = b.code
    /\ a.body = b.body
    /\ a.docs = docs /\ a.vars = vars
    /\ b.docs = docs /\ b.vars = vars

\* C9: for status, insights, fields, file, query, delete, template fetch and
\* template fill, the answer to an id owned by another org is the answer to an id
\* that does not exist, and the store is left as it was.
C9_ForeignAnsweredAsMissing ==
    \A org \in Orgs :
       /\ \A d1 \in RequestDocIds, d2 \in RequestDocIds, op \in ScopedDocumentOps :
             (/\ OwnerCase(Lookup(d1).orgId, org) = "foreign"
              /\ OwnerCase(Lookup(d2).orgId, org) = "missing")
                => SameAnswerStoreKept(DocumentAnswer(op, d1, org), DocumentAnswer(op, d2, org))
       /\ \A t1 \in RequestTemplateIds, t2 \in RequestTemplateIds, op \in ScopedTemplateOps :
             (/\ OwnerCase(LookupTemplate(t1), org) = "foreign"
              /\ OwnerCase(LookupTemplate(t2), org) = "missing")
                => SameAnswerStoreKept(TemplateAnswer(op, t1, org), TemplateAnswer(op, t2, org))

\* C9's case: a request naming a record of another org has just been refused,
\* while the store holds a completed document with variables that a status request
\* of another org is refused with 403, and a template as well.
C9_Witness ==
    /\ lastReq.case = "foreign"
    /\ lastReq.refused
    /\ \E d \in DocIds, org \in Orgs :
          /\ docs[d].status = "completed" /\ vars[d] # <<>>
          /\ OwnerCase(docs[d].orgId, org) = "foreign"
          /\ get_processing_status(d, org).code = 403
    /\ \E t \in TemplateIds : templates[t] # NoTemplate

\* The indexes, in template.variables, of the required variables with no filled value.
ExpectedIndexes == { i \in 1..Len(qgen.variables) :
                       qgen.variables[i].required
                       /\ qgen.variables[i].key \notin qgen.filled_variables }

\* C10: what generate_questions returns has one entry per required variable whose
\* key is not in filled_variables, in the order of the template's variables, each
\* entry holding the question asked about its own variable, whatever the order in
\* which the oracle calls completed.
C10_QuestionsPairedInOrder ==
    qgen.pc = "returned"
       => LET out == qgen.questions_to_ask
          IN /\ Len(out) = Cardinality(ExpectedIndexes)
             /\ \A i \in 1..Len(out) :
                  /\ out[i].key \in ExpectedIndexes
                  /\ out[i].question.about = qgen.variables[out[i].key].label
                  /\ out[i].example = qgen.variables[out[i].key].example
                  /\ out[i].question # Pending
             /\ \A i \in 1..Len(out), j \in 1..Len(out) :
                  i < j => out[i].key < out[j].key

\* C10's case: two questions returned whose oracle calls completed in the reverse
\* of the declaration order.
C10_Witness ==
    /\ qgen.pc = "returned"
    /\ Len(qgen.questions_to_ask) >= 2
    /\ qgen.completed[1] > qgen.completed[2]

C12_DeleteFrame ==
    [][\A u \in UploadIds :
         (frows[u].state = "stored" /\ frows'[u].state = "deleted")
            => /\ fvars'[u] = 0
               /\ files'[frows[u].filePath] = NoFile
               /\ \A w \in UploadIds \ {u} :
                    /\ frows'[w] = frows[w]
                    /\ fvars'[w] = fvars[w]
                    /\ frows[w].state = "stored"
                          => files'[frows[w].filePath] = files[frows[w].filePath]]_vars_

\* C13: no decoder raises; each returns a parsed value or the sentinel that holds
\* the input as raw_output.
C13_DecoderNeverRaises ==
    /\ dec.extracted.kind # "raise"
    /\ dec.parsed.kind # "raise"
    /\ dec.extracted.kind = "sentinel" => dec.extracted.raw = dec.raw
    /\ dec.parsed.kind = "sentinel" => dec.parsed.raw = dec.raw

\* C19: a reply that is the serialization of a JSON value x decodes to x, by
\* either decoder.
C19_DecodeInvertsSerialize ==
    dec.isJson
       => /\ dec.extracted # NotRun => dec.extracted = Decoded(dec.x)
          /\ dec.parsed # NotRun => dec.parsed = Decoded(dec.x)

\* The entity extractor's output is one that no json.loads accepts: the parse in
\* EntityExtractorAgent.process raised, or process handed back a string that
\* safe_parse_json cannot parse.
Undecodable(j) ==
    \/ j.entRaised
    \/ j.entOut.kind = "str" /\ j.entOut.text # "{}"

\* C14: with an entity output that cannot be decoded, step 5 inserts no variable
\* row, and the completed update stores confidence_level "low".
C14_UndecodableEntitiesAreEmpty ==
    [][\A d \in DocIds :
         /\ (job[d].pc = "save_vars" /\ Undecodable(job[d]) /\ job'[d].pc # "save_vars")
               => vars'[d] = vars[d] /\ job'[d].pc = "persist"
         /\ (job[d].pc = "persist" /\ Undecodable(job[d]) /\ docs'[d] # docs[d])
               => /\ docs'[d].status = "completed"
                  /\ docs'[d].insights.confidence_level = "low"]_vars_

\* The first of the first two search results whose stripped text has at least
\* MinExemplarLen characters; 0 when neither has.
Qualified(examples) ==
    IF Len(examples) >= 1 /\ StripLen(examples[1]) >= MinExemplarLen THEN 1
    ELSE IF Len(examples) >= 2 /\ StripLen(examples[2]) >= MinExemplarLen THEN 2
    ELSE 0

\* C15: the templatizer is called on the first of the first two results that has
\* at least 100 characters of text, and when neither has, it is not called and no
\* template is returned.
C15_ExemplarHasEnoughText ==
    /\ boot.pc = "templatize" => boot.picked = Qualified(boot.examples) /\ boot.picked # 0
    /\ boot.pc = "returned"
          => /\ boot.called => boot.picked = Qualified(boot.examples) /\ boot.picked # 0
             /\ Qualified(boot.examples) = 0 => ~boot.called /\ boot.result = "none"

\* An analysis result that may create a type: confidence at least 0.3 and a type
\* other than "Unknown" and "Generic Document".
MayCreateType(a) ==
    /\ Confidence(a) >= MinConfidence
    /\ DocTypeName(a) \notin {"Unknown", "Generic Document"}

\* C16: a call of get_or_create_document_type adds a DocumentType row only for a
\* result with confidence at least 0.3 and a type other than "Unknown" and
\* "Generic Document"; for any other result the table is unchanged and the call
\* returns no id.
C16_OnlyConfidentTypesCreated ==
    [][dtypes' # dtypes
          => \/ MayCreateType(dtypes'.analysis)
             \/ dtypes'.names = dtypes.names /\ dtypes'.returned = "none"]_vars_

\* A markdown save_template has to refuse as bad input: no front-matter block, or
\* a front matter that is not parsable YAML.
BadTemplateInput(md) ==
    LET parts == Split(md, -1)
    IN Len(parts) < 3 \/ safe_load(parts[2]).kind = "YAMLError"

\* C17: fetching or filling a template id that the org has not answers 404, and
\* saving a markdown with no front-matter block or unparsable YAML answers 400.
C17_FailuresKeepTheirStatus ==
    /\ (treq.op \in {"get_template_by_id", "fill_template"} /\ ~treq.found)
          => treq.out.code = 404
    /\ (treq.op = "save_template" /\ BadTemplateInput(treq.markdown))
          => treq.out.code = 400

\* C20: each parser takes a markdown of fewer than 3 segments whole as the body,
\* with empty metadata, and otherwise takes as body all that follows the second
\* delimiter, later delimiters included.
C20_ParsersSplitOnFirstTwo ==
    treq.op \in {"parse_template_markdown", "find_templates", "save_template"}
       => LET parts == Split(treq.markdown, 2)
          IN /\ Len(parts) < 3 => treq.out = TemplateData({}, treq.markdown)
             /\ (Len(parts) = 3 /\ treq.out.outcome = "parsed"
                    /\ StartsWithDelim(Strip(treq.markdown)))
                   => treq.out.body \in {Strip(parts[3]), treq.markdown}

\* C18: a bulk insert appends one row per element of its list, in order, whatever
\* names the table or the list already holds, and keeps every earlier row; an
\* update of fields gives the value to every row of the document whose name is a
\* key of the fields, and leaves every other row as it was.
C18_BulkKeepsAllUpdateHitsAllMatches ==
    [][/\ dvt'.op = "bulk_create_variables"
            => LET n == Len(dvt.rows)
                   vs == dvt'.variables
               IN /\ Len(dvt'.rows) = n + Len(vs)
                  /\ \A i \in 1..n : dvt'.rows[i] = dvt.rows[i]
                  /\ \A i \in 1..Len(vs) :
                       dvt'.rows[n + i] = [documentId |-> dvt'.documentId,
                                           name |-> vs[i].name, value |-> vs[i].value]
       /\ (dvt'.op = "update_document_fields" /\ dvt'.code = 200)
            => /\ Len(dvt'.rows) = Len(dvt.rows)
               /\ \A i \in 1..Len(dvt.rows) :
                    IF dvt.rows[i].documentId = dvt'.documentId
                       /\ dvt.rows[i].name \in dvt'.fields
                    THEN dvt'.rows[i] = [dvt.rows[i] EXCEPT !.value = dvt'.value]
                    ELSE dvt'.rows[i] = dvt.rows[i]]_vars_

\* C18's case: a document holds two rows of one name, both edited by one update,
\* next to an untouched row of the other document with the same name.
C18_Witness ==
    /\ dvt.op = "update_document_fields"
    /\ dvt.code = 200
    /\ \E i, j, k \in 1..Len(dvt.rows) :
          /\ i # j
          /\ dvt.rows[i].documentId = dvt.documentId
          /\ dvt.rows[j].documentId = dvt.documentId
          /\ dvt.rows[i].name = dvt.rows[j].name
          /\ dvt.rows[i].name \in dvt.fields
          /\ dvt.rows[i].value \in EditValues
          /\ dvt.rows[j].value \in EditValues
          /\ dvt.rows[k].documentId # dvt.documentId
          /\ dvt.rows[k].name = dvt.rows[i].name
          /\ dvt.rows[k].value = "extracted"

\* C21: a template that bootstrap_template returns has a title, a description, a
\* document type and at least one similarity tag.
C21_ReturnedTemplateHasDisplayFields ==
    (boot.pc = "returned" /\ boot.result = "template")
       => /\ boot.data.title # ""
          /\ boot.data.file_description # ""
          /\ boot.data.doc_type # ""
          /\ boot.data.similarity_tags # <<>>

\* C23: when the templatizer's markdown declares no variable and the fallback
\* extraction replies a non-empty list, both the dict returned and the Template row
\* saved hold that list.
C23_FallbackVariablesCarried ==
    (boot.result = "template" /\ boot.meta.variables = <<>>
        /\ boot.fallback \in FallbackReplies \ {<<>>})
       => /\ boot.data.variables = boot.fallback
          /\ boot.pc = "saved" => boot.saved.variables = boot.fallback

\* C22: safe_parse_json, the decoder of the entity output, gives back the object
\* when the reply is the object's serialization with a trailing comma, inside a
\* fenced code block.
C22_NoisyObjectRecovered ==
    (dec.noisy /\ dec.parsed # NotRun) => dec.parsed = Decoded(dec.x)

\* The positions, in order, of the user and assistant messages of the last call.
TurnPositions ==
    SelectSeq([i \in 1..Len(oracle.messages) |-> i],
              LAMBDA i : oracle.messages[i].role \in {"user", "assistant"})

\* The position of the last user message before position i, 0 when there is none.
PreviousUser(i) ==
    LET us == { j \in 1..(i - 1) : oracle.messages[j].role = "user" }
    IN IF us = {} THEN 0 ELSE MaxOf(us)

\* The system contents at the positions from..to, each with its line end, in order.
RECURSIVE SystemBetween(_, _)
SystemBetween(from, to) ==
    IF from > to THEN <<>>
    ELSE (IF oracle.messages[from].role = "system"
          THEN oracle.messages[from].content \o <<"\n">> ELSE <<>>)
         \o SystemBetween(from + 1, to)

C25_OcrOnlyOnEmptyLayerOnce ==
    (ext.pc = "returned" /\ ext.extension = ".pdf")
       => /\ ext.ocrRuns >= 1 <=> Strip(ext.direct) = <<>>
          /\ ext.ocrRuns <= 1
          /\ Strip(ext.direct) # <<>> => ext.result = ext.direct

\* C26: the file at a document's filePath holds the bytes uploaded for that
\* document, and the bytes its background job has read are those bytes, whatever
\* other uploads there are.
C26_UploadsIndependent ==
    \A u \in UploadIds :
       frows[u].state = "stored"
          => /\ files[frows[u].filePath] # NoFile => files[frows[u].filePath] = u
             /\ frows[u].read # 0 => frows[u].read = u

\* C27: a document whose status is uploaded or failed has no variable row that the
\* pipeline inserted.
C27_PipelineRowsOnlyWhenCompleted ==
    \A d \in DocIds :
       docs[d].status \in {"uploaded", "failed"}
          => \A i \in 1..Len(vars[d]) : vars[d][i].src # "pipeline"

\* C28: when a delete of a document and the document's job have both finished, there
\* is no Document row and no DocumentVariable row for that id.
C28_DeletedStaysDeleted ==
    \A d \in DocIds :
       (deletion[d].pc = "done" /\ job[d].pc = "done")
          => ~Exists(d) /\ vars[d] = <<>>

\* A delete that began while the job was running, whose last step took the rows the
\* job had inserted after delete_many; the job has ended too.
C28_Witness ==
    \E d \in DocIds :
       /\ deletion[d].pc = "done" /\ job[d].pc = "done"
       /\ deletion[d].during /\ deletion[d].cascaded

\* C29: no two DocumentType rows have the same name, and every caller that has its
\* answer has the id of the row of its name or the already-exists error.
C29_OneRowPerName ==
    /\ \A i, j \in 1..Len(registry.rows) : registry.rows[i] = registry.rows[j] => i = j
    /\ \A c \in CallerIds :
          registry.calls[c].pc = "done"
             => \/ registry.calls[c].tag = "exists"
                \/ /\ registry.calls[c].tag = "id"
                   /\ registry.calls[c].id = FindFirst(registry.rows, registry.calls[c].name)

\* The sockets an org has connected and not yet disconnected.
ConnectedOf(org) ==
    {s \in SocketIds : ws.sock[s].org = org /\ ws.sock[s].state \in {"open", "closed"}}

\* How often a socket is in a list.
TimesIn(list, s) == Cardinality({i \in 1..Len(list) : list[i] = s})

\* C30, the registry: its keys are the orgs with a connected socket, and an org's
\* list is non-empty and holds each of its connected sockets once and nothing else.
C30_RegistryMatchesSockets ==
    LET ac == ws.active_connections
    IN /\ DOMAIN ac = {org \in Orgs : ConnectedOf(org) # {}}
       /\ \A org \in DOMAIN ac :
             /\ ac[org] # <<>>
             /\ \A s \in SocketIds :
                   TimesIn(ac[org], s) = IF s \in ConnectedOf(org) THEN 1 ELSE 0

\* C30, the broadcast: when a broadcast is over, every socket of its org that was
\* connected from its beginning to its end was sent the message once, and no socket
\* of another org was sent it.
C30_BroadcastReachesAll ==
    ws.bc.pc \in {"done", "raised"}
       => /\ \A s \in ws.bc.stayed : TimesIn(ws.bc.sent, s) = 1
          /\ \A i \in 1..Len(ws.bc.sent) : ws.sock[ws.bc.sent[i]].org = ws.bc.org

\* C30: the registry and the broadcast together.
C30_ConnectionsAndBroadcast == C30_RegistryMatchesSockets /\ C30_BroadcastReachesAll

====
